---------------------------- MODULE Spec2Model ----------------------------
(***************************************************************************)
(* State-machine model of the DAG visualizer: the Index page, the file     *)
(* upload modal, the customization panel and the GraphVisualizer component *)
(* (selection / resize overlay and the style / layout facade).             *)
(*                                                                         *)
(* One action models one event handler together with the re-render and    *)
(* the effects that the handler's state updates trigger.  The rendering    *)
(* engine (Cytoscape) is an external collaborator: fit() settles on one    *)
(* viewport (FitZoom, FitPan); where the repository does not fix the       *)
(* engine's outcome (whether an invalid style value is stored, whether a   *)
(* background tap drops the selection) the model takes either.             *)
(*                                                                         *)
(* Units: sizes and coordinates are CSS pixels, opacity is in percent.     *)
(***************************************************************************)
EXTENDS Integers, Sequences, FiniteSets, TLC

(***************************************************************************)
(* Bounds of the model.                                                    *)
(***************************************************************************)
\* pointer-down events on resize handles in one run
MaxDrags == 2
\* pending 10 ms timers of changeSelectedNodesShape
MaxTimers == 1
\* the observer's call counter wraps at this value
EmitWrap == 2

(***************************************************************************)
(* Program constants.                                                      *)
(***************************************************************************)
MinSize == 30
MaxSize == 200
Sensitivity == 2
RegularSize == 60
WideWidth == 80
WideHeight == 50
DefaultBorderWidth == 2
FullOpacity == 100

Null == "null"
NoTag == "none"
\* dragState = null and selectedFile = null
NoDrag == [handleId |-> Null]
NoFile == [ext |-> Null]

\* node ids of the documents the model uploads
NodeIds == {"a", "b", "c"}
Docs == {"d1", "d2", "d3"}
NoDoc == "nodoc"

DocNodeSeq(d) ==
    CASE d = "d1" -> <<"a">>
      [] d = "d2" -> <<"a", "b">>
      [] d = "d3" -> <<"b", "c">>
      [] OTHER -> <<>>

SeqRange(s) == {s[i] : i \in 1..Len(s)}

DocNodes(d) == SeqRange(DocNodeSeq(d))

\* keys of AVAILABLE_LAYOUTS (three of the six presets) and one key that is
\* not a preset
LayoutKeys == {"dagre", "circle", "grid"}
UnknownKey == "bogus"

HasLayoutConfig(key) == key \in LayoutKeys

AppShapes == {"circle", "rectangle", "diamond", "ellipse", "square"}
Corners == <<"tl", "tr", "bl", "br">>

\* zoom and pan values the user's wheel and drag give the viewport, and the
\* viewport the engine's fit() computes
Zooms == {1, 2}
Pans == {0, 16}
FitZoom == 1
FitPan == 0
\* clientX / clientY of pointer-down and pointer-move events; every delta
\* is a multiple of zoom * Sensitivity * 2, so the sizes stay whole and even
StartCoords == {0}
MoveCoords == {0, 40, 680}

\* colour strings: two the browser's CSS parser accepts, one it rejects
ValidColors == {"#FF0000", "#000000"}
InvalidColors == {"zz"}
ColorInputs == ValidColors \cup InvalidColors
DefaultBackground == "#3B82F6"
DefaultBorderColor == "#1E40AF"
WidthInputs == {-1, 3}
OpacityInputs == {50}

Max(a, b) == IF a > b THEN a ELSE b
Min(a, b) == IF a < b THEN a ELSE b
Abs(a) == IF a < 0 THEN -a ELSE a

-----------------------------------------------------------------------------
VARIABLES
    \* Index page
    graphData, currentLayout, isUploadModalOpen,
    \* FileUploadModal
    selectedFile, isProcessing, error, uploading,
    \* CustomizationPanel
    customNodeColor, customBorderColor, borderWidth,
    \* Cytoscape instance held by cyRef (exists iff a document is loaded)
    selected, style, tag, posLayout, zoom, pan, panningEnabled, zoomingEnabled,
    \* GraphVisualizer refs and state
    originalStyles, resizeHandles, isDragging, dragState, isLayoutRunning,
    \* callbacks in flight and values captured by closures
    layoutPending, layoutLive, shapeTimers, viewportSawHandles,
    \* bookkeeping of the bounded run
    drags,
    \* calls made to the onNodeSelectionChange observer, modulo EmitWrap
    emissions,
    \* a parser under examination: the file handed to it and what it returned
    parseInput, parseOutput

pageVars == <<graphData, currentLayout>>
modalVars == <<isUploadModalOpen, selectedFile, isProcessing, error, uploading>>
panelVars == <<customNodeColor, customBorderColor, borderWidth>>
cyVars == <<selected, style, tag, posLayout, zoom, pan, panningEnabled, zoomingEnabled>>
vizVars == <<originalStyles, resizeHandles, isDragging, dragState, isLayoutRunning>>
asyncVars == <<layoutPending, layoutLive, shapeTimers, viewportSawHandles>>
harnessVars == <<parseInput, parseOutput>>
vars == <<pageVars, modalVars, panelVars, cyVars, vizVars, asyncVars, drags,
          harnessVars, emissions>>

-----------------------------------------------------------------------------
(***************************************************************************)
(* Pure helpers of GraphVisualizer.                                        *)
(***************************************************************************)
convertShapeToCytoscape(shape) ==
    CASE shape = "circle" -> "ellipse"
      [] shape = "rectangle" -> "rectangle"
      [] shape = "diamond" -> "diamond"
      [] shape = "ellipse" -> "ellipse"
      [] shape = "square" -> "rectangle"
      [] OTHER -> "ellipse"

MaintainAspectRatio(shape) == shape \in {"circle", "square", "diamond"}

getShapeConstraints(shape) ==
    [maintainAspectRatio |-> MaintainAspectRatio(shape),
     minSize |-> MinSize, maxSize |-> MaxSize]

\* the node style of the stylesheet's 'node' rule (dark theme)
DefaultStyle ==
    [backgroundColor |-> DefaultBackground, borderColor |-> DefaultBorderColor,
     borderWidth |-> DefaultBorderWidth, opacity |-> FullOpacity,
     shape |-> "ellipse", width |-> RegularSize, height |-> RegularSize]

CyExists == graphData # NoDoc
CyNodeSeq == DocNodeSeq(graphData)
CyNodes == DocNodes(graphData)

\* model position the layout `key` gives node n
NodeIndex(n) == CASE n = "a" -> 1 [] n = "b" -> 2 [] OTHER -> 3
LayoutShift(key) == CASE key = "circle" -> 40 [] key = "grid" -> 80 [] OTHER -> 0
PosX(n, key) == 300 * NodeIndex(n) + LayoutShift(key)
PosY(n, key) == 200 + LayoutShift(key)

\* node.renderedBoundingBox(): the node's box in screen coordinates
renderedBoundingBox(n, st, lay, z, p) ==
    [x1 |-> z * (PosX(n, lay) - st[n].width \div 2) + p,
     x2 |-> z * (PosX(n, lay) + st[n].width \div 2) + p,
     y1 |-> z * (PosY(n, lay) - st[n].height \div 2) + p,
     y2 |-> z * (PosY(n, lay) + st[n].height \div 2) + p]

CornerX(bb, pos) == IF pos \in {"tl", "bl"} THEN bb.x1 ELSE bb.x2
CornerY(bb, pos) == IF pos \in {"tl", "tr"} THEN bb.y1 ELSE bb.y2

HandlesOfNode(n, st, lay, z, p) ==
    LET bb == renderedBoundingBox(n, st, lay, z, p)
    IN  [i \in 1..4 |->
            [id |-> n \o "-" \o Corners[i], nodeId |-> n, position |-> Corners[i],
             x |-> CornerX(bb, Corners[i]), y |-> CornerY(bb, Corners[i])]]

RECURSIVE HandlesFrom(_, _, _, _, _, _)
HandlesFrom(nodes, sel, st, lay, z, p) ==
    IF nodes = <<>> THEN <<>>
    ELSE (IF Head(nodes) \in sel THEN HandlesOfNode(Head(nodes), st, lay, z, p) ELSE <<>>)
         \o HandlesFrom(Tail(nodes), sel, st, lay, z, p)

\* createResizeHandles(cy): four corner handles for each selected node
createResizeHandles(sel, st, lay, z, p) ==
    HandlesFrom(CyNodeSeq, sel, st, lay, z, p)

\* storeOriginalStyles(cy): snapshot of every node of the instance
SnapshotOf(s) ==
    [backgroundColor |-> s.backgroundColor, borderColor |-> s.borderColor,
     borderWidth |-> s.borderWidth,
     opacity |-> IF s.opacity = 0 THEN FullOpacity ELSE s.opacity,
     shape |-> s.shape, width |-> s.width, height |-> s.height]

\* originalStyles is a Map: its keys are the DOMAIN of the function
storeOriginalStyles(map, nodes, st) ==
    [n \in (DOMAIN map) \cup nodes |-> IF n \in nodes THEN SnapshotOf(st[n]) ELSE map[n]]


-----------------------------------------------------------------------------
(***************************************************************************)
(* Initial state: Index is mounted with no document, so no GraphVisualizer *)
(* and no Cytoscape instance exist yet.                                    *)
(***************************************************************************)
NoSnapshots == [n \in {} |-> DefaultStyle]
\* no parser is under examination
NoInput == [kind |-> "none"]
NoOutput == [returned |-> FALSE]

InitProgram ==
    /\ graphData = NoDoc
    /\ currentLayout = "dagre"
    /\ isUploadModalOpen = FALSE
    /\ selectedFile = NoFile
    /\ isProcessing = FALSE
    /\ error = Null
    /\ uploading = NoFile
    /\ customNodeColor = "#FF0000"
    /\ customBorderColor = "#000000"
    /\ borderWidth = DefaultBorderWidth
    /\ selected = {}
    /\ style = [n \in NodeIds |-> DefaultStyle]
    /\ tag = [n \in NodeIds |-> NoTag]
    /\ posLayout = "dagre"
    /\ zoom = 1
    /\ pan = 0
    /\ panningEnabled = TRUE
    /\ zoomingEnabled = TRUE
    /\ originalStyles = NoSnapshots
    /\ resizeHandles = <<>>
    /\ isDragging = FALSE
    /\ dragState = NoDrag
    /\ isLayoutRunning = FALSE
    /\ layoutPending = Null
    /\ layoutLive = FALSE
    /\ shapeTimers = 0
    /\ viewportSawHandles = FALSE
    /\ drags = 0
    /\ emissions = 0

Init ==
    /\ InitProgram
    /\ parseInput = NoInput
    /\ parseOutput = NoOutput

(***************************************************************************)
(* Engine primitives.                                                      *)
(***************************************************************************)
\* cy.fit() / cy.center(): the engine computes the viewport; it leaves the
\* viewport alone while panning or zooming is disabled
FitViewports == IF panningEnabled /\ zoomingEnabled
                THEN {<<FitZoom, FitPan>>} ELSE {<<zoom, pan>>}

\* the 'viewport' handler registered by the init effect; it reads the
\* resizeHandles value of the render in which the effect ran
ViewportHandler(handles, sel, st, lay, z, p) ==
    IF viewportSawHandles THEN createResizeHandles(sel, st, lay, z, p) ELSE handles

(***************************************************************************)
(* The init effect of GraphVisualizer: [data, isDarkMode, currentLayout,   *)
(* onNodeSelectionChange].  Tears the old instance down, builds a new one  *)
(* from `doc`, snapshots its styles, registers the handlers and fits.      *)
(***************************************************************************)
\* fault injection: an init effect that keeps the engine's styles, shape
\* tags and selection of the instance it replaces
InitCytoscape_KeepsInstanceState(doc, key, map, sawHandles) ==
    /\ selected' = selected
    /\ style' = style
    /\ tag' = tag
    /\ posLayout' = IF HasLayoutConfig(key) THEN key ELSE "dagre"
    /\ zoom' = FitZoom
    /\ pan' = FitPan
    /\ panningEnabled' = TRUE
    /\ zoomingEnabled' = TRUE
    /\ originalStyles' = storeOriginalStyles(map, DocNodes(doc), style')
    /\ resizeHandles' = <<>>
    /\ viewportSawHandles' = sawHandles
    /\ layoutLive' = FALSE


InitCytoscape(doc, key, map, sawHandles) ==
    /\ selected' = {}
    /\ style' = [n \in NodeIds |-> DefaultStyle]
    /\ tag' = [n \in NodeIds |-> NoTag]
    /\ posLayout' = IF HasLayoutConfig(key) THEN key ELSE "dagre"
    /\ zoom' = FitZoom
    /\ pan' = FitPan
    /\ panningEnabled' = TRUE
    /\ zoomingEnabled' = TRUE
    /\ originalStyles' = storeOriginalStyles(map, DocNodes(doc), style')
    /\ resizeHandles' = <<>>
    /\ viewportSawHandles' = sawHandles
    /\ layoutLive' = FALSE

(***************************************************************************)
(* Index page handlers.                                                    *)
(***************************************************************************)
\* handleDataUploaded: setGraphData(data); GraphVisualizer mounts or its
\* init effect re-runs
handleDataUploaded(doc) ==
    /\ graphData' = doc
    /\ InitCytoscape(doc, currentLayout, originalStyles, resizeHandles # <<>>)
    /\ UNCHANGED <<currentLayout, isDragging, dragState, isLayoutRunning,
                   layoutPending, shapeTimers, drags, harnessVars, emissions>>

\* clearGraphData: GraphVisualizer unmounts; its state, refs and the
\* callbacks still in flight die with it
clearGraphData ==
    /\ CyExists
    /\ graphData' = NoDoc
    /\ selected' = {}
    /\ style' = [n \in NodeIds |-> DefaultStyle]
    /\ tag' = [n \in NodeIds |-> NoTag]
    /\ posLayout' = "dagre"
    /\ zoom' = 1
    /\ pan' = 0
    /\ panningEnabled' = TRUE
    /\ zoomingEnabled' = TRUE
    /\ originalStyles' = NoSnapshots
    /\ resizeHandles' = <<>>
    /\ isDragging' = FALSE
    /\ dragState' = NoDrag
    /\ isLayoutRunning' = FALSE
    /\ layoutPending' = Null
    /\ layoutLive' = FALSE
    /\ shapeTimers' = 0
    /\ viewportSawHandles' = FALSE
    /\ UNCHANGED <<currentLayout, drags, harnessVars, emissions>>

(***************************************************************************)
(* Facade: applyLayout.                                                    *)
(***************************************************************************)
\* the call returns at once when no instance exists or a layout is running
applyLayoutReturnsEarly == ~CyExists \/ isLayoutRunning

applyLayout(key) ==
    IF applyLayoutReturnsEarly
    THEN UNCHANGED <<pageVars, cyVars, vizVars, asyncVars, drags, harnessVars, emissions>>
    ELSE /\ isLayoutRunning' = TRUE
         /\ resizeHandles' = <<>>
         /\ IF HasLayoutConfig(key)
            THEN layoutPending' = key /\ layoutLive' = TRUE
            ELSE UNCHANGED <<layoutPending, layoutLive>>
         /\ UNCHANGED <<pageVars, cyVars, originalStyles, isDragging, dragState,
                        shapeTimers, viewportSawHandles, drags, harnessVars, emissions>>

\* handleLayoutChange of Index: setCurrentLayout(key), then applyLayout(key)
\* on the mounted visualizer; the changed currentLayout prop re-runs the
\* init effect, which destroys the instance the layout was started on
handleLayoutChange(key) ==
    /\ CyExists
    /\ key # currentLayout
    /\ currentLayout' = key
    /\ IF applyLayoutReturnsEarly
       THEN /\ UNCHANGED <<isLayoutRunning, layoutPending>>
            /\ InitCytoscape(graphData, key, originalStyles, resizeHandles # <<>>)
       ELSE /\ isLayoutRunning' = TRUE
            /\ layoutPending' = IF HasLayoutConfig(key) THEN key ELSE layoutPending
            /\ InitCytoscape(graphData, key, originalStyles, FALSE)
    /\ UNCHANGED <<graphData, isDragging, dragState, shapeTimers, drags, harnessVars, emissions>>

\* the engine's 'layoutstop' callback of the layout in flight
layoutstop ==
    /\ layoutPending # Null
    /\ isLayoutRunning' = FALSE
    /\ layoutPending' = Null
    /\ layoutLive' = FALSE
    /\ IF CyExists
       THEN /\ posLayout' = IF layoutLive THEN layoutPending ELSE posLayout
            /\ \E v \in FitViewports :
                 /\ zoom' = v[1]
                 /\ pan' = v[2]
                 /\ resizeHandles' =
                      IF selected # {}
                      THEN createResizeHandles(selected, style, posLayout', v[1], v[2])
                      ELSE ViewportHandler(resizeHandles, selected, style, posLayout', v[1], v[2])
       ELSE UNCHANGED <<posLayout, zoom, pan, resizeHandles>>
    /\ UNCHANGED <<pageVars, selected, style, tag, panningEnabled, zoomingEnabled,
                   originalStyles, isDragging, dragState, shapeTimers,
                   viewportSawHandles, drags, harnessVars, emissions>>

\* resetView: fit + center; refresh the handles if any are shown
resetView ==
    /\ CyExists
    /\ \E v \in FitViewports :
         /\ zoom' = v[1]
         /\ pan' = v[2]
         /\ resizeHandles' =
              IF resizeHandles # <<>>
              THEN createResizeHandles(selected, style, posLayout, v[1], v[2])
              ELSE ViewportHandler(resizeHandles, selected, style, posLayout, v[1], v[2])
    /\ UNCHANGED <<pageVars, selected, style, tag, posLayout, panningEnabled,
                   zoomingEnabled, originalStyles, isDragging, dragState,
                   isLayoutRunning, asyncVars, drags, harnessVars, emissions>>


(***************************************************************************)
(* Engine events on the canvas.  The busy overlay (z-10, shown while       *)
(* isLayoutRunning) covers the canvas, so these reach the engine only      *)
(* while no layout is marked running.                                      *)
(***************************************************************************)
CanvasReachable == CyExists /\ ~isLayoutRunning

\* onNodeSelectionChange?.(...): one more call reaches the observer
CallObserver == emissions' = (emissions + 1) % EmitWrap

\* 'select' on a node: the tapped node joins the selection (additive)
selectNode(n) ==
    /\ CanvasReachable
    /\ n \in CyNodes \ selected
    /\ selected' = selected \cup {n}
    /\ resizeHandles' = createResizeHandles(selected', style, posLayout, zoom, pan)
    /\ UNCHANGED <<pageVars, style, tag, posLayout, zoom, pan, panningEnabled,
                   zoomingEnabled, originalStyles, isDragging, dragState,
                   isLayoutRunning, asyncVars, drags, harnessVars>>
    /\ CallObserver

\* 'unselect' on a node
unselectNode(n) ==
    /\ CanvasReachable
    /\ n \in selected
    /\ selected' = selected \ {n}
    /\ resizeHandles' = createResizeHandles(selected', style, posLayout, zoom, pan)
    /\ UNCHANGED <<pageVars, style, tag, posLayout, zoom, pan, panningEnabled,
                   zoomingEnabled, originalStyles, isDragging, dragState,
                   isLayoutRunning, asyncVars, drags, harnessVars>>
    /\ CallObserver

\* 'tap' on the background: the handler clears the handles; whether the
\* engine also drops the selection is the engine's choice
backgroundTap(engineUnselects) ==
    /\ CanvasReachable
    /\ selected' = IF engineUnselects THEN {} ELSE selected
    /\ resizeHandles' = <<>>
    /\ UNCHANGED <<pageVars, style, tag, posLayout, zoom, pan, panningEnabled,
                   zoomingEnabled, originalStyles, isDragging, dragState,
                   isLayoutRunning, asyncVars, drags, harnessVars>>
    /\ CallObserver

\* 'viewport' after a user pan
userPan(p) ==
    /\ CanvasReachable
    /\ panningEnabled
    /\ p # pan
    /\ pan' = p
    /\ resizeHandles' = ViewportHandler(resizeHandles, selected, style, posLayout, zoom, p)
    /\ UNCHANGED <<pageVars, selected, style, tag, posLayout, zoom, panningEnabled,
                   zoomingEnabled, originalStyles, isDragging, dragState,
                   isLayoutRunning, asyncVars, drags, harnessVars, emissions>>

\* 'viewport' after a user zoom
userZoom(z) ==
    /\ CanvasReachable
    /\ zoomingEnabled
    /\ z # zoom
    /\ zoom' = z
    /\ resizeHandles' = ViewportHandler(resizeHandles, selected, style, posLayout, z, pan)
    /\ UNCHANGED <<pageVars, selected, style, tag, posLayout, pan, panningEnabled,
                   zoomingEnabled, originalStyles, isDragging, dragState,
                   isLayoutRunning, asyncVars, drags, harnessVars, emissions>>

(***************************************************************************)
(* Resize overlay.                                                         *)
(***************************************************************************)
\* onMouseDown of the i-th rendered handle, pointer at (x, y)
handleResizeStart(i, x, y) ==
    LET h == resizeHandles[i]
        n == h.nodeId
    IN  /\ i \in 1..Len(resizeHandles)
        /\ drags < MaxDrags
        /\ drags' = drags + 1
        /\ IF ~CyExists \/ n \notin CyNodes
           THEN UNCHANGED <<isDragging, dragState, panningEnabled, zoomingEnabled>>
           ELSE /\ isDragging' = TRUE
                /\ dragState' =
                     [handleId |-> h.id, nodeId |-> n, position |-> h.position,
                      startX |-> x, startY |-> y,
                      originalWidth |-> style[n].width,
                      originalHeight |-> style[n].height,
                      shape |-> IF tag[n] # NoTag THEN tag[n] ELSE style[n].shape]
                /\ panningEnabled' = FALSE
                /\ zoomingEnabled' = FALSE
        /\ UNCHANGED <<pageVars, selected, style, tag, posLayout, zoom, pan,
                       originalStyles, resizeHandles, isLayoutRunning, asyncVars,
                       harnessVars, emissions>>

\* fault injection: the clamp without its lower bound
Clamp_NoFloor(v) == Min(MaxSize, v)

Clamp(v) == Max(MinSize, Min(MaxSize, v))

\* fault injection: the resize computation without the aspect-ratio step
ResizedSize_NoAspect(ds, x, y, z) ==
    LET adjustedDeltaX == (x - ds.startX) \div z
        adjustedDeltaY == (y - ds.startY) \div z
        sx == IF ds.position \in {"br", "tr"} THEN 1 ELSE -1
        sy == IF ds.position \in {"br", "bl"} THEN 1 ELSE -1
    IN  [width |-> Clamp(ds.originalWidth + sx * (adjustedDeltaX \div Sensitivity)),
         height |-> Clamp(ds.originalHeight + sy * (adjustedDeltaY \div Sensitivity))]

\* fault injection: the resize computation with the left corners' horizontal
\* sign taken from the right corners
ResizedSize_LeftAsRight(ds, x, y, z) ==
    LET adjustedDeltaX == (x - ds.startX) \div z
        adjustedDeltaY == (y - ds.startY) \div z
        sy == IF ds.position \in {"br", "bl"} THEN 1 ELSE -1
        w == Clamp(ds.originalWidth + (adjustedDeltaX \div Sensitivity))
        h == Clamp(ds.originalHeight + sy * (adjustedDeltaY \div Sensitivity))
    IN  IF getShapeConstraints(ds.shape).maintainAspectRatio
        THEN IF Abs(adjustedDeltaX) > Abs(adjustedDeltaY)
             THEN [width |-> w, height |-> (w * ds.originalHeight) \div ds.originalWidth]
             ELSE [width |-> (h * ds.originalWidth) \div ds.originalHeight, height |-> h]
        ELSE [width |-> w, height |-> h]

\* the width and height handleResizeMove computes for pointer (x, y)
ResizedSize(ds, x, y, z) ==
    LET adjustedDeltaX == (x - ds.startX) \div z
        adjustedDeltaY == (y - ds.startY) \div z
        sx == IF ds.position \in {"br", "tr"} THEN 1 ELSE -1
        sy == IF ds.position \in {"br", "bl"} THEN 1 ELSE -1
        w == Clamp(ds.originalWidth + sx * (adjustedDeltaX \div Sensitivity))
        h == Clamp(ds.originalHeight + sy * (adjustedDeltaY \div Sensitivity))
    IN  IF getShapeConstraints(ds.shape).maintainAspectRatio
        THEN IF Abs(adjustedDeltaX) > Abs(adjustedDeltaY)
             THEN [width |-> w, height |-> (w * ds.originalHeight) \div ds.originalWidth]
             ELSE [width |-> (h * ds.originalWidth) \div ds.originalHeight, height |-> h]
        ELSE [width |-> w, height |-> h]

\* fault injection: a pointer-move that adds its delta to the node's current
\* size instead of the size recorded at pointer-down
handleResizeMove_FromCurrentSize(x, y) ==
    /\ isDragging
    /\ dragState # NoDrag
    /\ CyExists
    /\ LET n == dragState.nodeId
           ds == [dragState EXCEPT !.originalWidth = style[n].width,
                                   !.originalHeight = style[n].height]
           size == ResizedSize(ds, x, y, zoom)
       IN  /\ style' = IF n \in CyNodes
                       THEN [style EXCEPT ![n].width = size.width, ![n].height = size.height]
                       ELSE style
           /\ resizeHandles' = createResizeHandles(selected, style', posLayout, zoom, pan)
    /\ UNCHANGED <<pageVars, selected, tag, posLayout, zoom, pan, panningEnabled,
                   zoomingEnabled, originalStyles, isDragging, dragState,
                   isLayoutRunning, asyncVars, drags, harnessVars, emissions>>

\* global mousemove listener (attached while isDragging)
handleResizeMove(x, y) ==
    /\ isDragging
    /\ dragState # NoDrag
    /\ CyExists
    /\ LET size == ResizedSize(dragState, x, y, zoom)
           n == dragState.nodeId
       IN  /\ style' = IF n \in CyNodes
                       THEN [style EXCEPT ![n].width = size.width, ![n].height = size.height]
                       ELSE style
           /\ resizeHandles' = createResizeHandles(selected, style', posLayout, zoom, pan)
    /\ UNCHANGED <<pageVars, selected, tag, posLayout, zoom, pan, panningEnabled,
                   zoomingEnabled, originalStyles, isDragging, dragState,
                   isLayoutRunning, asyncVars, drags, harnessVars, emissions>>

\* fault injection: pointer-up that leaves panning and zooming disabled
handleResizeEnd_KeepsViewportLocked ==
    /\ isDragging
    /\ CyExists
    /\ isDragging' = FALSE
    /\ dragState' = NoDrag
    /\ resizeHandles' = createResizeHandles(selected, style, posLayout, zoom, pan)
    /\ UNCHANGED <<pageVars, selected, style, tag, posLayout, zoom, pan,
                   panningEnabled, zoomingEnabled,
                   originalStyles, isLayoutRunning, asyncVars, drags, harnessVars, emissions>>

\* global mouseup listener (attached while isDragging)
handleResizeEnd ==
    /\ isDragging
    /\ CyExists
    /\ isDragging' = FALSE
    /\ dragState' = NoDrag
    /\ panningEnabled' = TRUE
    /\ zoomingEnabled' = TRUE
    /\ resizeHandles' = createResizeHandles(selected, style, posLayout, zoom, pan)
    /\ UNCHANGED <<pageVars, selected, style, tag, posLayout, zoom, pan,
                   originalStyles, isLayoutRunning, asyncVars, drags, harnessVars, emissions>>


(***************************************************************************)
(* Facade: style operations on the selection.                              *)
(***************************************************************************)
\* frame of a facade style call: everything but style, tag, handles, timers
\* and the observer
StyleFrame ==
    UNCHANGED <<pageVars, selected, posLayout, zoom, pan, panningEnabled,
                zoomingEnabled, originalStyles, isDragging, dragState,
                isLayoutRunning, layoutPending, layoutLive, viewportSawHandles, drags,
                harnessVars>>

\* the colour the engine holds after node.style(prop, color): a colour its
\* parser rejects is either dropped or stored, the repository does not say
EngineColor(old, color, engineStores) ==
    IF color \in ValidColors \/ engineStores THEN color ELSE old

changeSelectedNodesColor(color, engineStores) ==
    /\ IF ~CyExists \/ selected = {}
       THEN UNCHANGED style
       ELSE style' = [n \in NodeIds |->
                IF n \in selected
                THEN [style[n] EXCEPT
                        !.backgroundColor = EngineColor(@, color, engineStores)]
                ELSE style[n]]
    /\ UNCHANGED <<tag, resizeHandles, shapeTimers>>
    /\ IF ~CyExists \/ selected = {} THEN UNCHANGED emissions ELSE CallObserver
    /\ StyleFrame

changeSelectedNodesBorder(color, width, engineStores) ==
    /\ IF ~CyExists \/ selected = {}
       THEN UNCHANGED style
       ELSE style' = [n \in NodeIds |->
                IF n \in selected
                THEN [style[n] EXCEPT
                        !.borderColor = EngineColor(@, color, engineStores),
                        !.borderWidth = width]
                ELSE style[n]]
    /\ UNCHANGED <<tag, resizeHandles, shapeTimers>>
    /\ IF ~CyExists \/ selected = {} THEN UNCHANGED emissions ELSE CallObserver
    /\ StyleFrame

\* fault injection: an opacity change without the empty-selection return,
\* which styles every node when none is selected
changeSelectedNodesOpacity_NoEmptyGuard(opacity) ==
    /\ IF ~CyExists
       THEN UNCHANGED <<style, emissions>>
       ELSE /\ style' = [n \in NodeIds |->
                    IF n \in selected \/ selected = {}
                    THEN [style[n] EXCEPT !.opacity = opacity]
                    ELSE style[n]]
            /\ CallObserver
    /\ UNCHANGED <<tag, resizeHandles, shapeTimers>>
    /\ StyleFrame

changeSelectedNodesOpacity(opacity) ==
    /\ IF ~CyExists \/ selected = {}
       THEN UNCHANGED style
       ELSE style' = [n \in NodeIds |->
                IF n \in selected
                THEN [style[n] EXCEPT !.opacity = opacity]
                ELSE style[n]]
    /\ UNCHANGED <<tag, resizeHandles, shapeTimers>>
    /\ IF ~CyExists \/ selected = {} THEN UNCHANGED emissions ELSE CallObserver
    /\ StyleFrame

\* width and height changeSelectedNodesShape gives a node of app shape `shape`
ShapeDefaultSize(shape, old) ==
    IF getShapeConstraints(shape).maintainAspectRatio
    THEN [width |-> RegularSize, height |-> RegularSize]
    ELSE IF shape \in {"ellipse", "rectangle"}
         THEN [width |-> WideWidth, height |-> WideHeight]
         ELSE [width |-> old.width, height |-> old.height]

changeSelectedNodesShape(shape) ==
    /\ shapeTimers < MaxTimers
    /\ IF ~CyExists \/ selected = {}
       THEN UNCHANGED <<style, tag, shapeTimers>>
       ELSE /\ tag' = [n \in NodeIds |-> IF n \in selected THEN shape ELSE tag[n]]
            /\ style' = [n \in NodeIds |->
                 IF n \in selected
                 THEN [style[n] EXCEPT
                         !.shape = convertShapeToCytoscape(shape),
                         !.width = ShapeDefaultSize(shape, style[n]).width,
                         !.height = ShapeDefaultSize(shape, style[n]).height]
                 ELSE style[n]]
            /\ shapeTimers' = shapeTimers + 1
    /\ UNCHANGED resizeHandles
    /\ IF ~CyExists \/ selected = {} THEN UNCHANGED emissions ELSE CallObserver
    /\ StyleFrame

\* the 10 ms timer changeSelectedNodesShape leaves behind
shapeTimerFires ==
    /\ shapeTimers > 0
    /\ shapeTimers' = shapeTimers - 1
    /\ resizeHandles' = IF CyExists
                        THEN createResizeHandles(selected, style, posLayout, zoom, pan)
                        ELSE resizeHandles
    /\ UNCHANGED <<style, tag>>
    /\ UNCHANGED emissions
    /\ StyleFrame

\* fault injection: a reset that leaves width and height as they are
resetAllNodesToOriginal_KeepsSize ==
    /\ CyExists
    /\ style' = [n \in NodeIds |->
         IF n \in CyNodes /\ n \in DOMAIN originalStyles
         THEN [originalStyles[n] EXCEPT !.width = style[n].width,
                                        !.height = style[n].height]
         ELSE style[n]]
    /\ tag' = [n \in NodeIds |->
         IF n \in CyNodes /\ n \in DOMAIN originalStyles THEN NoTag ELSE tag[n]]
    /\ resizeHandles' = <<>>
    /\ UNCHANGED shapeTimers
    /\ CallObserver
    /\ StyleFrame

resetAllNodesToOriginal ==
    /\ CyExists
    /\ style' = [n \in NodeIds |->
         IF n \in CyNodes /\ n \in DOMAIN originalStyles THEN originalStyles[n] ELSE style[n]]
    /\ tag' = [n \in NodeIds |->
         IF n \in CyNodes /\ n \in DOMAIN originalStyles THEN NoTag ELSE tag[n]]
    /\ resizeHandles' = <<>>
    /\ UNCHANGED shapeTimers
    /\ CallObserver
    /\ StyleFrame

(***************************************************************************)
(* CustomizationPanel handlers (wired by Index to the facade).             *)
(***************************************************************************)
\* isValidColor: the browser's CSS parser keeps the colour
isValidColor(color) == color \in ValidColors

\* swatch click and the custom colour "Apply" button
handleNodeColorClick(color, engineStores) ==
    /\ IF ~isValidColor(color)
       THEN UNCHANGED <<pageVars, cyVars, vizVars, asyncVars, drags, harnessVars, emissions>>
       ELSE changeSelectedNodesColor(color, engineStores)
    /\ UNCHANGED panelVars

\* custom node colour picker / text input
handleCustomNodeColorInputChange(text) ==
    /\ customNodeColor' = text
    /\ UNCHANGED <<customBorderColor, borderWidth>>
    /\ UNCHANGED <<pageVars, cyVars, vizVars, asyncVars, drags, harnessVars, emissions>>

\* border colour text input
handleBorderColorInputChange(text, engineStores) ==
    /\ customBorderColor' = text
    /\ UNCHANGED <<customNodeColor, borderWidth>>
    /\ IF isValidColor(text)
       THEN changeSelectedNodesBorder(text, borderWidth, engineStores)
       ELSE UNCHANGED <<pageVars, cyVars, vizVars, asyncVars, drags, harnessVars, emissions>>

\* border colour picker (a colour input only yields #rrggbb values)
handleBorderColorPickerChange(color, engineStores) ==
    /\ color \in ValidColors
    /\ customBorderColor' = color
    /\ UNCHANGED <<customNodeColor, borderWidth>>
    /\ changeSelectedNodesBorder(color, borderWidth, engineStores)

\* border width input; numValue is parseInt(value) || 0
handleBorderWidthChange(numValue, engineStores) ==
    /\ borderWidth' = numValue
    /\ UNCHANGED <<customNodeColor, customBorderColor>>
    /\ IF numValue >= 0
       THEN changeSelectedNodesBorder(customBorderColor, numValue, engineStores)
       ELSE UNCHANGED <<pageVars, cyVars, vizVars, asyncVars, drags, harnessVars, emissions>>


(***************************************************************************)
(* File upload (modals/FileUploadModal.tsx, shared processFile).           *)
(* A file is its extension and what its text holds: the text of document   *)
(* d2 or d3, text that is not JSON, or JSON of no known shape.             *)
(***************************************************************************)
Files ==
    [ext : {"txt"}, content : {"d2", "d3"}]
    \cup [ext : {"json"}, content : {"d2", "d3", "malformed", "noschema"}]
    \cup [ext : {"xml"}, content : {"d2"}]

processJsonFile(content) ==
    CASE content \in Docs ->
           [ok |-> TRUE, doc |-> content, message |-> Null]
      [] content = "malformed" ->
           [ok |-> FALSE, doc |-> NoDoc, message |-> "Invalid JSON file: parser message"]
      [] OTHER ->
           [ok |-> FALSE, doc |-> NoDoc,
            message |-> "Invalid JSON file: JSON format not recognized"]

processTxtFile(content) == [ok |-> TRUE, doc |-> content, message |-> Null]

\* fault injection: a dispatcher that reads every other extension as text
processFile_NoDefault(file) ==
    CASE file.ext = "json" -> processJsonFile(file.content)
      [] OTHER -> processTxtFile(file.content)

processFile(file) ==
    CASE file.ext = "txt" -> processTxtFile(file.content)
      [] file.ext = "json" -> processJsonFile(file.content)
      [] OTHER -> [ok |-> FALSE, doc |-> NoDoc, message |-> "Unsupported file type"]

\* Index: the upload button opens the modal
openUploadModal ==
    /\ ~isUploadModalOpen
    /\ isUploadModalOpen' = TRUE
    /\ UNCHANGED <<selectedFile, isProcessing, error, uploading>>
    /\ UNCHANGED <<pageVars, panelVars, cyVars, vizVars, asyncVars, drags, harnessVars, emissions>>

\* onClose: Cancel, Esc or a click outside the dialog
closeUploadModal ==
    /\ isUploadModalOpen
    /\ isUploadModalOpen' = FALSE
    /\ UNCHANGED <<selectedFile, isProcessing, error, uploading>>
    /\ UNCHANGED <<pageVars, panelVars, cyVars, vizVars, asyncVars, drags, harnessVars, emissions>>

\* handleFileSelect / handleDrop
handleFileSelect(file) ==
    /\ isUploadModalOpen
    /\ selectedFile' = file
    /\ error' = Null
    /\ UNCHANGED <<isUploadModalOpen, isProcessing, uploading>>
    /\ UNCHANGED <<pageVars, panelVars, cyVars, vizVars, asyncVars, drags, harnessVars, emissions>>

\* fault injection: an Upload button that stays enabled while isProcessing
handleUpload_ButtonStaysEnabled ==
    /\ isUploadModalOpen
    /\ IF selectedFile = NoFile
       THEN UNCHANGED <<isProcessing, error, uploading>>
       ELSE /\ isProcessing' = TRUE
            /\ error' = Null
            /\ uploading' = selectedFile
    /\ UNCHANGED <<isUploadModalOpen, selectedFile>>
    /\ UNCHANGED <<pageVars, panelVars, cyVars, vizVars, asyncVars, drags, harnessVars, emissions>>

\* handleUpload up to its await; the Upload button is disabled while
\* isProcessing
handleUpload ==
    /\ isUploadModalOpen
    /\ ~isProcessing
    /\ IF selectedFile = NoFile
       THEN UNCHANGED <<isProcessing, error, uploading>>
       ELSE /\ isProcessing' = TRUE
            /\ error' = Null
            /\ uploading' = selectedFile
    /\ UNCHANGED <<isUploadModalOpen, selectedFile>>
    /\ UNCHANGED <<pageVars, panelVars, cyVars, vizVars, asyncVars, drags, harnessVars, emissions>>

\* handleUpload after its await: processFile settled
handleUploadSettles ==
    /\ uploading # NoFile
    /\ LET r == processFile(uploading)
       IN  IF r.ok
           THEN /\ handleDataUploaded(r.doc)
                /\ isUploadModalOpen' = FALSE
                /\ UNCHANGED error
           ELSE /\ error' = r.message
                /\ UNCHANGED isUploadModalOpen
                /\ UNCHANGED <<pageVars, cyVars, vizVars, asyncVars, drags, harnessVars, emissions>>
    /\ isProcessing' = FALSE
    /\ uploading' = NoFile
    /\ UNCHANGED <<selectedFile, panelVars>>

-----------------------------------------------------------------------------
(***************************************************************************)
(* Specifications.  Commands of the page (buttons, the layout selector,    *)
(* the panel) are clicks, and a click ends with the pointer released, so   *)
(* they are taken between drags; pointer events on the handles, the global *)
(* listeners and the callbacks in flight are taken whenever the code has   *)
(* them wired.                                                             *)
(***************************************************************************)
uiVars == <<modalVars, panelVars>>

PointerAndAsync ==
    \/ \E i \in 1..8, x \in StartCoords, y \in StartCoords : handleResizeStart(i, x, y)
    \/ \E x \in MoveCoords, y \in MoveCoords : handleResizeMove(x, y)
    \/ handleResizeEnd
    \/ layoutstop
    \/ shapeTimerFires

SelectionEvents ==
    \/ \E n \in NodeIds : selectNode(n)
    \/ \E n \in NodeIds : unselectNode(n)
    \/ \E b \in BOOLEAN : backgroundTap(b)


(***************************************************************************)
(* SpecOverlay: selection and resize overlay on one loaded document.       *)
(***************************************************************************)
NextOverlay ==
    \/ PointerAndAsync /\ UNCHANGED uiVars
    \/ /\ ~isDragging
       /\ UNCHANGED uiVars
       /\ \/ SelectionEvents
          \/ \E z \in Zooms : userZoom(z)
          \/ handleDataUploaded("d1")
          \/ \E s \in AppShapes : changeSelectedNodesShape(s)
          \/ resetAllNodesToOriginal

SpecOverlay == Init /\ [][NextOverlay]_vars

(***************************************************************************)
(* Spec: the layout facade, the page's layout selector and the viewport.   *)
(***************************************************************************)
Next ==
    \/ layoutstop /\ UNCHANGED uiVars
    \/ /\ UNCHANGED uiVars
       /\ \/ SelectionEvents
          \/ \E p \in Pans : userPan(p)
          \/ \E z \in Zooms : userZoom(z)
          \/ \E d \in {"d2", "d3"} : handleDataUploaded(d)
          \/ clearGraphData
          \/ \E k \in LayoutKeys : handleLayoutChange(k)
          \/ \E k \in LayoutKeys \cup {UnknownKey} : applyLayout(k)
          \/ resetView

Spec == Init /\ [][Next]_vars

\* Spec with the engine's completion callback scheduled fairly: a layout run
\* that was started does report 'layoutstop'
SpecLayoutFair == Spec /\ WF_vars(layoutstop /\ UNCHANGED uiVars)

(***************************************************************************)
(* SpecUpload: the upload modal and the page's document.                   *)
(***************************************************************************)
NextUpload ==
    \/ openUploadModal
    \/ closeUploadModal
    \/ \E f \in Files : handleFileSelect(f)
    \/ handleUpload
    \/ handleUploadSettles
    \/ clearGraphData /\ UNCHANGED uiVars
    \/ (\E n \in NodeIds : selectNode(n)) /\ UNCHANGED uiVars

SpecUpload == Init /\ [][NextUpload]_vars

(***************************************************************************)
(* SpecStyle: the style facade, resize drags and reset on document d2.     *)
(***************************************************************************)
StyleMoveCoords == {680}

NextStyle ==
    \/ /\ UNCHANGED uiVars
       /\ \/ \E i \in {1, 4, 8}, x \in StartCoords, y \in StartCoords : handleResizeStart(i, x, y)
          \/ \E x \in StyleMoveCoords, y \in StyleMoveCoords : handleResizeMove(x, y)
          \/ handleResizeEnd
          \/ shapeTimerFires
    \/ /\ ~isDragging
       /\ UNCHANGED uiVars
       /\ \/ \E n \in NodeIds : selectNode(n)
          \/ handleDataUploaded("d2")
          \/ changeSelectedNodesColor("#FF0000", TRUE)
          \/ changeSelectedNodesBorder("#000000", 3, TRUE)
          \/ \E o \in OpacityInputs : changeSelectedNodesOpacity(o)
          \/ \E s \in {"square", "rectangle"} : changeSelectedNodesShape(s)
          \/ resetAllNodesToOriginal

SpecStyle == Init /\ [][NextStyle]_vars

(***************************************************************************)
(* SpecPanel: the customization panel driving the facade on document d2.   *)
(***************************************************************************)
NextPanel ==
    \/ /\ UNCHANGED modalVars
       /\ \/ \E c \in ValidColors : handleNodeColorClick(c, TRUE)
          \/ \E e \in BOOLEAN : handleNodeColorClick(customNodeColor, e)
          \/ \E t \in ColorInputs : handleCustomNodeColorInputChange(t)
          \/ \E t \in ColorInputs, e \in BOOLEAN : handleBorderColorInputChange(t, e)
          \/ \E c \in ValidColors : handleBorderColorPickerChange(c, TRUE)
          \/ \E w \in WidthInputs, e \in BOOLEAN : handleBorderWidthChange(w, e)
    \/ /\ UNCHANGED uiVars
       /\ \/ \E n \in NodeIds : selectNode(n)
          \/ \E n \in NodeIds : unselectNode(n)
          \/ handleDataUploaded("d2")
          \/ resetAllNodesToOriginal

SpecPanel == Init /\ [][NextPanel]_vars

(***************************************************************************)
(* SpecFacade: the colour, border and opacity operations of the facade     *)
(* with and without a selection, on document d2.                           *)
(***************************************************************************)
NextFacade ==
    /\ UNCHANGED uiVars
    /\ \/ handleDataUploaded("d2")
       \/ \E n \in NodeIds : selectNode(n)
       \/ \E n \in NodeIds : unselectNode(n)
       \/ changeSelectedNodesColor("#FF0000", TRUE)
       \/ changeSelectedNodesBorder("#000000", 3, TRUE)
       \/ \E o \in OpacityInputs : changeSelectedNodesOpacity(o)
       \/ resetAllNodesToOriginal

SpecFacade == Init /\ [][NextFacade]_vars

(***************************************************************************)
(* SpecRelayout: the layout selector of the page on a styled, resized      *)
(* document d2.                                                            *)
(***************************************************************************)
NextRelayout ==
    \/ /\ UNCHANGED uiVars
       /\ \/ \E i \in {1, 8}, x \in StartCoords, y \in StartCoords : handleResizeStart(i, x, y)
          \/ \E x \in StyleMoveCoords, y \in StyleMoveCoords : handleResizeMove(x, y)
          \/ handleResizeEnd
          \/ shapeTimerFires
          \/ layoutstop
    \/ /\ ~isDragging
       /\ UNCHANGED uiVars
       /\ \/ \E n \in NodeIds : selectNode(n)
          \/ handleDataUploaded("d2")
          \/ changeSelectedNodesColor("#FF0000", TRUE)
          \/ changeSelectedNodesBorder("#000000", 3, TRUE)
          \/ \E o \in OpacityInputs : changeSelectedNodesOpacity(o)
          \/ \E s \in {"square", "rectangle"} : changeSelectedNodesShape(s)
          \/ \E k \in LayoutKeys : handleLayoutChange(k)

SpecRelayout == Init /\ [][NextRelayout]_vars

-----------------------------------------------------------------------------
(***************************************************************************)
(* File parsers (shared processFile, processTxtFile, processJsonFile),     *)
(* as they compute on the text of a file.                                  *)
(*                                                                         *)
(* A JSON value is a record tagged with its JavaScript type; an object     *)
(* carries the function from its own keys to their values, so a missing    *)
(* key is a key outside the DOMAIN.  Records the parsers build are such    *)
(* key-to-value functions too.                                             *)
(***************************************************************************)
JUndefined == [t |-> "undefined"]
JNull == [t |-> "null"]
JStr(s) == [t |-> "string", s |-> s]
JNum(n) == [t |-> "number", n |-> n]
JBool(b) == [t |-> "boolean", b |-> b]
JArr(e) == [t |-> "array", e |-> e]
JObj(f) == [t |-> "object", f |-> f]
EmptyObject == JObj([k \in {} |-> JNull])

\* v.k for a value v that is neither null nor undefined
Get(v, k) == IF v.t = "object" /\ k \in DOMAIN v.f THEN v.f[k] ELSE JUndefined
\* reading a property of null or undefined throws a TypeError
ThrowsOnAccess(v) == v.t \in {"null", "undefined"}
\* ToBoolean
Truthy(v) ==
    CASE v.t \in {"undefined", "null"} -> FALSE
      [] v.t = "string" -> v.s # ""
      [] v.t = "number" -> v.n # 0
      [] v.t = "boolean" -> v.b
      [] OTHER -> TRUE
\* a || b
Or(a, b) == IF Truthy(a) THEN a ELSE b
\* typeof value is 'string', 'number' or 'boolean'
IsScalar(v) == v.t \in {"string", "number", "boolean"}
\* Object.fromEntries(Object.entries(o).filter(scalar))
ScalarEntries(o) ==
    IF o.t = "object"
    THEN [k \in {k \in DOMAIN o.f : IsScalar(o.f[k])} |-> o.f[k]]
    ELSE [k \in {} |-> JNull]
\* { ...base, ...over }
Spread(base, over) ==
    [k \in DOMAIN base \cup DOMAIN over |-> IF k \in DOMAIN over THEN over[k] ELSE base[k]]

\* what a parser returns or throws
\* fault injection: the two counts of the metadata exchanged
Returns_CountsExchanged(nodes, edges, fileType, nodeCount, edgeCount) ==
    [returned |-> TRUE, ok |-> TRUE, nodes |-> nodes, edges |-> edges,
     metadata |-> [fileType |-> fileType, nodeCount |-> edgeCount, edgeCount |-> nodeCount]]

Returns(nodes, edges, fileType, nodeCount, edgeCount) ==
    [returned |-> TRUE, ok |-> TRUE, nodes |-> nodes, edges |-> edges,
     metadata |-> [fileType |-> fileType, nodeCount |-> nodeCount,
                   edgeCount |-> edgeCount]]
Throws(message) == [returned |-> TRUE, ok |-> FALSE, message |-> message]

TypeErrorMessage == "Cannot read properties of undefined"
NotRecognizedMessage ==
    "JSON format not recognized. Expected {nodes: [], edges: []} or custom graph structure."
InvalidJsonPrefix == "Invalid JSON file: "
UnsupportedPrefix == "Unsupported file type: "

\* the text of a file as JSON.parse sees it: it either parses to a value or
\* makes the parser throw its message
JsonText(v) == [parses |-> TRUE, value |-> v]
BadJsonText(parserMessage) == [parses |-> FALSE, parserMessage |-> parserMessage]
\* JSON.stringify of a value JSON.parse produced reads back as that value
\* fault injection: a passthrough that hands on an empty object
JSONstringify_Empty(v) == JsonText(EmptyObject)

JSONstringify(v) == JsonText(v)

\* array.map(f) over the elements, 0-based index
MapIndexed(e, F(_, _)) == [i \in 1..Len(e) |-> F(e[i], i - 1)]

\* lines 198-210: a node of the custom nested shape
CustomNode(node, index) ==
    LET nodeId == Or(Get(node, "name"), Or(Get(node, "id"), JStr("node-" \o ToString(index))))
    IN  [id |-> nodeId, label |-> nodeId,
         centerX |-> Get(node, "centerX"), centerY |-> Get(node, "centerY"),
         nodeType |-> Get(node, "nodeType"),
         nodeVariableType |-> Get(node, "nodeVariableType")]

\* lines 213-229: an edge of the custom nested shape; reading .name of a
\* missing node1 / node2 throws
CustomEdgeThrows(edge) ==
    \/ ThrowsOnAccess(edge)
    \/ ThrowsOnAccess(Get(edge, "node1"))
    \/ ThrowsOnAccess(Get(edge, "node2"))

CustomEdge(edge, index) ==
    [id |-> JStr("edge-" \o ToString(index)),
     source |-> Or(Get(Get(edge, "node1"), "name"), JStr("node1-" \o ToString(index))),
     target |-> Or(Get(Get(edge, "node2"), "name"), JStr("node2-" \o ToString(index))),
     endpoint1 |-> Get(edge, "endpoint1"), endpoint2 |-> Get(edge, "endpoint2"),
     probability |-> Get(edge, "probability")]

\* lines 249-257: a node of the standard shape
StandardNode(node, index) ==
    Spread([id |-> Or(Get(node, "id"),
                      Or(Get(node, "name"), JStr("node-" \o ToString(index)))),
            label |-> Or(Get(node, "label"),
                         Or(Get(node, "name"),
                            Or(Get(node, "id"), JStr("Node " \o ToString(index)))))],
           ScalarEntries(node))

\* fault injection: standard edges numbered from one
StandardEdge_NumberedFromOne(edge, index) ==
    Spread([id |-> Or(Get(edge, "id"), JStr("edge-" \o ToString(index + 1))),
            source |-> Or(Get(edge, "source"), Get(edge, "from")),
            target |-> Or(Get(edge, "target"), Get(edge, "to")),
            label |-> Or(Get(edge, "label"), Get(edge, "name"))],
           ScalarEntries(edge))

\* lines 258-268: an edge of the standard shape
StandardEdge(edge, index) ==
    Spread([id |-> Or(Get(edge, "id"), JStr("edge-" \o ToString(index))),
            source |-> Or(Get(edge, "source"), Get(edge, "from")),
            target |-> Or(Get(edge, "target"), Get(edge, "to")),
            label |-> Or(Get(edge, "label"), Get(edge, "name"))],
           ScalarEntries(edge))

\* value.map(...) throws unless value is an array, and the callback throws
\* on an element that is null
MapThrows(value) ==
    \/ value.t # "array"
    \/ \E i \in 1..Len(value.e) : ThrowsOnAccess(value.e[i])

RECURSIVE processJsonText(_)
\* the try block of processJsonFile on the parsed value
processJsonData(jsonData) ==
    IF ThrowsOnAccess(jsonData) THEN Throws(TypeErrorMessage)
    ELSE
    LET graph == Get(jsonData, "graph")
    IN  IF Truthy(graph) /\ Truthy(Get(graph, "edgesSet")) /\ Truthy(Get(graph, "nodes"))
        THEN IF \/ MapThrows(Get(graph, "nodes"))
                \/ Get(graph, "edgesSet").t # "array"
                \/ \E i \in 1..Len(Get(graph, "edgesSet").e) :
                       CustomEdgeThrows(Get(graph, "edgesSet").e[i])
             THEN Throws(TypeErrorMessage)
             ELSE LET nodes == MapIndexed(Get(graph, "nodes").e, CustomNode)
                      edges == MapIndexed(Get(graph, "edgesSet").e, CustomEdge)
                  IN  Returns(nodes, edges, "json", Len(nodes), Len(edges))
        ELSE IF Truthy(Get(jsonData, "nodes")) /\ Truthy(Get(jsonData, "edges"))
        THEN IF MapThrows(Get(jsonData, "nodes")) \/ MapThrows(Get(jsonData, "edges"))
             THEN Throws(TypeErrorMessage)
             ELSE Returns(MapIndexed(Get(jsonData, "nodes").e, StandardNode),
                          MapIndexed(Get(jsonData, "edges").e, StandardEdge),
                          "json",
                          Len(Get(jsonData, "nodes").e), Len(Get(jsonData, "edges").e))
        ELSE IF Truthy(graph)
        THEN processJsonText(JSONstringify(graph))
        ELSE Throws(NotRecognizedMessage)

\* processJsonFile(content, fileName): JSON.parse, the try block, and the
\* catch that rethrows whatever was thrown inside
processJsonText(content) ==
    LET r == IF content.parses THEN processJsonData(content.value)
             ELSE Throws(content.parserMessage)
    IN  IF r.ok THEN r ELSE Throws(InvalidJsonPrefix \o r.message)

(***************************************************************************)
(* Text files.  The text is its sequence of lines (split on '\n'); a line  *)
(* is a sequence of pieces, each a maximal run of characters of one kind:  *)
(* a word (\w+), a run of white space, or a punctuation mark.  The two     *)
(* markers are pieces of their own.  No two words and no two white-space   *)
(* runs are adjacent in a line.                                            *)
(***************************************************************************)
NodesMarker == "Graph Nodes:"
EdgesMarker == "Graph Edges:"
Markers == {NodesMarker, EdgesMarker}
Arrow == "-->"
WhiteSpace == {" ", "  "}
Words == {"a", "b", "c", "x", "1", "2", "my", "Graph", "Nodes", "Edges"}
Punctuation == {";", ".", ":", "-", Arrow}
Pieces == Words \cup WhiteSpace \cup Punctuation \cup Markers

\* the pieces of a line with each marker spelled out
RECURSIVE Expand(_)
Expand(line) ==
    IF line = <<>> THEN <<>>
    ELSE (CASE Head(line) = NodesMarker -> <<"Graph", " ", "Nodes", ":">>
            [] Head(line) = EdgesMarker -> <<"Graph", " ", "Edges", ":">>
            [] OTHER -> <<Head(line)>>)
         \o Expand(Tail(line))

\* s.trim(): without the white space at both ends
RECURSIVE TrimLeft(_)
TrimLeft(line) ==
    IF line # <<>> /\ Head(line) \in WhiteSpace THEN TrimLeft(Tail(line)) ELSE line
RECURSIVE TrimRight(_)
TrimRight(line) ==
    IF line # <<>> /\ line[Len(line)] \in WhiteSpace
    THEN TrimRight(SubSeq(line, 1, Len(line) - 1)) ELSE line
Trim(line) == TrimRight(TrimLeft(line))

\* the string a run of pieces spells
RECURSIVE Spell(_)
Spell(line) == IF line = <<>> THEN "" ELSE Head(line) \o Spell(Tail(line))

\* s.split(sep) for a separator that is one of the pieces in Seps: the
\* runs between separators, empty runs included
RECURSIVE SplitAt(_, _, _)
SplitAt(line, Seps, run) ==
    IF line = <<>> THEN <<run>>
    ELSE IF Head(line) \in Seps
         THEN <<run>> \o SplitAt(Tail(line), Seps, <<>>)
         ELSE SplitAt(Tail(line), Seps, Append(run, Head(line)))
Split(line, Seps) == SplitAt(line, Seps, <<>>)

\* array.filter(pred) for the predicate "is in Keep"
RECURSIVE FilterOut(_, _)
FilterOut(seq, Drop) ==
    IF seq = <<>> THEN <<>>
    ELSE (IF Head(seq) \in Drop THEN <<>> ELSE <<Head(seq)>>) \o FilterOut(Tail(seq), Drop)

\* content.trim().split('\n').filter(line => line.trim())
NonBlankLines(content) == FilterOut([i \in 1..Len(content) |-> content[i]],
                                    {l \in {content[i] : i \in 1..Len(content)} : Trim(l) = <<>>})

\* s.includes(marker)
LineIncludes(line, marker) == \E i \in 1..Len(line) : line[i] = marker
ContentIncludes(content, marker) ==
    \E i \in 1..Len(content) : LineIncludes(content[i], marker)

\* lines.findIndex(line => line.includes(marker)), 1-based; 0 when absent
FindIndex(lines, marker) ==
    IF \E i \in 1..Len(lines) : LineIncludes(lines[i], marker)
    THEN CHOOSE i \in 1..Len(lines) :
            /\ LineIncludes(lines[i], marker)
            /\ \A j \in 1..(i - 1) : ~LineIncludes(lines[j], marker)
    ELSE 0

\* nodesLine.split(';').map(n => n.trim()).filter(n => n)
NodeNames(nodesLine) ==
    LET runs == Split(Expand(nodesLine), {";"})
    IN  FilterOut([i \in 1..Len(runs) |-> Spell(Trim(runs[i]))], {""})

\* fault injection: a node set that keeps duplicates
SetAdd_KeepsDuplicates(set, x) == Append(set, x)

\* Set.add in insertion order
SetAdd(set, x) == IF \E i \in 1..Len(set) : set[i] = x THEN set ELSE Append(set, x)
RECURSIVE SetAddAll(_, _)
SetAddAll(set, xs) == IF xs = <<>> THEN set ELSE SetAddAll(SetAdd(set, Head(xs)), Tail(xs))

\* line.match(/(?:\d+\.\s*)?(\w+)\s*-->\s*(\w+)/): the leftmost word that
\* is followed by the arrow and a word, white space allowed around the arrow
AfterSpace(e, i) == IF i <= Len(e) /\ e[i] \in WhiteSpace THEN i + 1 ELSE i
MatchesAt(e, j) ==
    /\ e[j] \in Words
    /\ LET k == AfterSpace(e, j + 1)
           m == AfterSpace(e, k + 1)
       IN  k <= Len(e) /\ e[k] = Arrow /\ m <= Len(e) /\ e[m] \in Words
EdgeMatch(line) ==
    LET e == Expand(Trim(line))
        hits == {j \in 1..Len(e) : MatchesAt(e, j)}
    IN  IF hits = {} THEN [matched |-> FALSE]
        ELSE LET j == CHOOSE h \in hits : \A g \in hits : h <= g
                 m == AfterSpace(e, AfterSpace(e, j + 1) + 1)
             IN  [matched |-> TRUE, source |-> e[j], target |-> e[m]]

\* lines 112-135: the edge lines of headered mode, from line i on
RECURSIVE HeaderedEdges(_, _, _)
HeaderedEdges(lines, i, acc) ==
    IF i > Len(lines) THEN acc
    ELSE LET em == EdgeMatch(lines[i])
         IN  IF em.matched
             THEN HeaderedEdges(lines, i + 1,
                    [nodeSet |-> SetAdd(SetAdd(acc.nodeSet, em.source), em.target),
                     edges |-> Append(acc.edges,
                                  [id |-> JStr("edge-" \o ToString(Len(acc.edges))),
                                   source |-> JStr(em.source),
                                   target |-> JStr(em.target)])])
             ELSE HeaderedEdges(lines, i + 1, acc)

\* fault injection: the line split without trimming it
Tokens_NoTrim(line) ==
    LET runs == Split(Expand(line), WhiteSpace)
    IN  [i \in 1..Len(runs) |-> Spell(runs[i])]

\* line.trim().split(/\s+/)
Tokens(line) ==
    LET runs == Split(Expand(Trim(line)), WhiteSpace)
    IN  [i \in 1..Len(runs) |-> Spell(runs[i])]

\* parts.slice(2).join(' ')
RECURSIVE Join(_)
Join(parts) ==
    IF parts = <<>> THEN ""
    ELSE IF Len(parts) = 1 THEN parts[1]
    ELSE parts[1] \o " " \o Join(Tail(parts))

\* lines 141-164: the lines of simple edge-list mode, from line i on
RECURSIVE SimpleEdges(_, _, _)
SimpleEdges(lines, i, acc) ==
    IF i > Len(lines) THEN acc
    ELSE LET parts == Tokens(lines[i])
         IN  IF Len(parts) >= 2
             THEN SimpleEdges(lines, i + 1,
                    [nodeSet |-> SetAdd(SetAdd(acc.nodeSet, parts[1]), parts[2]),
                     edges |-> Append(acc.edges,
                                  [id |-> JStr("edge-" \o ToString(i - 1)),
                                   source |-> JStr(parts[1]),
                                   target |-> JStr(parts[2]),
                                   label |-> Or(JStr(Join(SubSeq(parts, 3, Len(parts)))),
                                                JUndefined)])])
             ELSE SimpleEdges(lines, i + 1, acc)

\* processTxtFile(content, fileName)
processTxtText(content) ==
    LET lines == NonBlankLines(content)
        start == [nodeSet |-> <<>>, edges |-> <<>>]
        nodesLineIndex == FindIndex(lines, NodesMarker)
        edgesLineIndex == FindIndex(lines, EdgesMarker)
        parsed ==
            IF ContentIncludes(content, NodesMarker) /\ ContentIncludes(content, EdgesMarker)
            THEN IF nodesLineIndex # 0 /\ edgesLineIndex # 0
                 THEN HeaderedEdges(lines, edgesLineIndex + 1,
                        [nodeSet |-> IF nodesLineIndex + 1 <= Len(lines)
                                     THEN SetAddAll(<<>>, NodeNames(lines[nodesLineIndex + 1]))
                                     ELSE <<>>,
                         edges |-> <<>>])
                 ELSE start
            ELSE SimpleEdges(lines, 1, start)
        nodes == [i \in 1..Len(parsed.nodeSet) |->
                    [id |-> JStr(parsed.nodeSet[i]), label |-> JStr(parsed.nodeSet[i])]]
    IN  Returns(nodes, parsed.edges, "txt", Len(nodes), Len(parsed.edges))

(***************************************************************************)
(* processFile on a named file.  A file name is the sequence of its parts  *)
(* between dots (name.split('.')); the last part is the extension.         *)
(***************************************************************************)
NameParts == {"graph", "data", "", "txt", "TXT", "json", "Json", "xml", "XML", "dot", "graphml"}

\* fault injection: the extension compared as it is written
ToLowerCase_AsWritten(part) == part

\* String.prototype.toLowerCase on the parts above
ToLowerCase(part) ==
    CASE part = "TXT" -> "txt"
      [] part = "Json" -> "json"
      [] part = "XML" -> "xml"
      [] OTHER -> part

\* file.name.split('.').pop()?.toLowerCase()
fileExtension(name) == ToLowerCase(name[Len(name)])

processFileNamed(file) ==
    CASE fileExtension(file.name) = "txt" -> processTxtText(file.content)
      [] fileExtension(file.name) = "json" -> processJsonText(file.content)
      [] OTHER -> Throws(UnsupportedPrefix \o fileExtension(file.name))

(***************************************************************************)
(* The parsers applied to one input.  parseInput is the call's argument,   *)
(* parseOutput what the call returned or threw.                            *)
(***************************************************************************)
callProcessJsonFile ==
    /\ parseInput.kind = "json"
    /\ parseOutput = NoOutput
    /\ parseOutput' = processJsonText(parseInput.content)
    /\ UNCHANGED <<pageVars, modalVars, panelVars, cyVars, vizVars, asyncVars, drags,
                   parseInput, emissions>>

callProcessTxtFile ==
    /\ parseInput.kind = "txt"
    /\ parseOutput = NoOutput
    /\ parseOutput' = processTxtText(parseInput.content)
    /\ UNCHANGED <<pageVars, modalVars, panelVars, cyVars, vizVars, asyncVars, drags,
                   parseInput, emissions>>

callProcessFile ==
    /\ parseInput.kind = "file"
    /\ parseOutput = NoOutput
    /\ parseOutput' = processFileNamed(parseInput.file)
    /\ UNCHANGED <<pageVars, modalVars, panelVars, cyVars, vizVars, asyncVars, drags,
                   parseInput, emissions>>

(***************************************************************************)
(* Inputs.  Arrays hold at most MaxItems elements, texts at most MaxLines  *)
(* edge lines, file names at most MaxNameParts parts.                      *)
(***************************************************************************)
MaxItems == 2
MaxLines == 3
MaxNameParts == 2

Absent == [t |-> "absent"]

\* the object whose fields are the keys that choice does not leave out
ObjectOf(choice) ==
    JObj([k \in {key \in DOMAIN choice : choice[key] # Absent} |-> choice[k]])

\* the ways to draw one option for each key
RECURSIVE Choices(_)
Choices(options) ==
    IF DOMAIN options = {} THEN {[k \in {} |-> Absent]}
    ELSE LET key == CHOOSE k \in DOMAIN options : TRUE
             rest == [k \in DOMAIN options \ {key} |-> options[k]]
         IN  {[k \in DOMAIN options |-> IF k = key THEN v ELSE c[k]] :
                 c \in Choices(rest), v \in options[key]}

\* the objects over the given keys, each key drawn from its options
ObjectsOver(options) == {ObjectOf(choice) : choice \in Choices(options)}

\* the array of n elements that ends in last, after n - 1 copies of filler
Padded(n, filler, last) == JArr([i \in 1..n |-> IF i = n THEN last ELSE filler])

SeqsUpTo(S, n) == UNION {[1..k -> S] : k \in 0..n}

Doc(nodes, edges) == JObj([nodes |-> nodes, edges |-> edges])
CustomDoc(nodes, edgesSet) ==
    JObj([graph |-> JObj([nodes |-> nodes, edgesSet |-> edgesSet])])
Wrapped(v) == JObj([graph |-> v])

NodeA == JObj([id |-> JStr("a")])
EdgeAA == JObj([source |-> JStr("a"), target |-> JStr("a")])

\* values that are valid JSON of no known shape
UnrecognizedValues ==
    {EmptyObject, JArr(<<>>), JNum(7), JStr("abc"), JBool(TRUE),
     JObj([nodes |-> JArr(<<>>)]), JObj([edges |-> JArr(<<>>)]),
     JObj([nodes |-> JArr(<<>>), edges |-> JNum(0)]),
     JObj([graph |-> JNum(0)]), JObj([title |-> JStr("g")])}

\* standard documents whose node fields vary
FieldOptions == {Absent, JNull, JStr(""), JStr("a"), JNum(0)}
VaryingNodes ==
    ObjectsOver([id |-> FieldOptions, name |-> FieldOptions, label |-> FieldOptions])
    \cup ObjectsOver([id |-> {JStr("a")}, weight |-> {JNum(0), JNum(5)},
                      hidden |-> {Absent, JBool(FALSE)}, note |-> {Absent, JStr("")},
                      position |-> {Absent, JObj([x |-> JNum(1)])},
                      tags |-> {Absent, JArr(<<JStr("t")>>)}])
VaryingEdges ==
    ObjectsOver([id |-> {Absent, JNull, JStr(""), JNum(0), JStr("e")},
                 source |-> {Absent, JStr(""), JNum(0), JStr("a")},
                 from |-> {Absent, JStr("b")},
                 target |-> {JStr("a")},
                 label |-> {Absent, JStr("")},
                 name |-> {Absent, JStr("n")}])
    \cup ObjectsOver([target |-> {Absent, JNull, JStr("")},
                      to |-> {Absent, JStr(""), JStr("b")},
                      source |-> {JStr("a")},
                      weight |-> {Absent, JNum(0)},
                      style |-> {Absent, JObj([dashed |-> JBool(TRUE)])}])
VaryingDocs ==
    {Doc(Padded(n, NodeA, node), JArr(<<>>)) : n \in 1..MaxItems, node \in VaryingNodes}
    \cup {Doc(JArr(<<NodeA>>), Padded(n, EdgeAA, edge)) : n \in 1..MaxItems, edge \in VaryingEdges}

\* standard documents with non-empty string ids, sources and targets
PlainIds == {"a", "b"}
PlainNodes == {JObj([id |-> JStr(i)]) : i \in PlainIds}
PlainEdges ==
    {JObj([source |-> JStr(src), target |-> JStr(tgt)]) : src \in PlainIds, tgt \in PlainIds}
    \cup {JObj([id |-> JStr("e"), source |-> JStr(src), target |-> JStr(tgt)]) :
            src \in PlainIds, tgt \in PlainIds}
PlainDocs ==
    {Doc(JArr(nodes), JArr(edges)) :
        nodes \in SeqsUpTo(PlainNodes, MaxItems), edges \in SeqsUpTo(PlainEdges, MaxItems)}

\* custom nested documents whose edge endpoints vary
EndpointOptions ==
    {Absent, JNull, EmptyObject, JStr("a"), JObj([name |-> JStr("")]),
     JObj([name |-> JStr("a")]), JObj([name |-> JStr("b")])}
CustomNodes ==
    {JArr(<<>>), JArr(<<JObj([name |-> JStr("a")]), JObj([id |-> JStr("b")])>>),
     JArr(<<JObj([name |-> JStr("a")]), JObj([name |-> JStr("a")])>>),
     JArr(<<EmptyObject, JObj([name |-> JStr("a"), centerX |-> JNum(0)])>>)}
CustomEdges ==
    ObjectsOver([node1 |-> EndpointOptions, node2 |-> EndpointOptions,
                 probability |-> {Absent, JNum(1)}])
EdgeAB == JObj([node1 |-> JObj([name |-> JStr("a")]), node2 |-> JObj([name |-> JStr("b")])])
CustomDocs ==
    {CustomDoc(nodes, Padded(n, EdgeAB, edge)) :
        nodes \in CustomNodes, n \in 1..MaxItems, edge \in CustomEdges}
    \cup {CustomDoc(nodes, JArr(<<>>)) : nodes \in CustomNodes}

\* documents whose nodes or edges are no arrays, or hold null
BrokenDocs ==
    {Doc(JStr("x"), JArr(<<>>)), Doc(JArr(<<>>), JObj([a |-> JNum(1)])),
     Doc(JArr(<<JNull>>), JArr(<<>>)), Doc(JArr(<<NodeA>>), JArr(<<JNull>>)),
     CustomDoc(JArr(<<JNull>>), JArr(<<EdgeAB>>)), CustomDoc(JArr(<<>>), JArr(<<JNull>>)),
     CustomDoc(JNum(1), JArr(<<>>)), CustomDoc(JArr(<<>>), JStr("e"))}

ShapedValues == VaryingDocs \cup PlainDocs \cup CustomDocs \cup BrokenDocs

\* a value below n levels of .graph
RECURSIVE Nested(_, _)
Nested(v, n) == IF n = 0 THEN v ELSE Wrapped(Nested(v, n - 1))

NestedValues ==
    {Nested(v, n) : n \in 1..MaxItems,
                    v \in UnrecognizedValues \cup {JNull} \cup PlainDocs \cup BrokenDocs
                          \cup {CustomDoc(JArr(<<>>), JArr(<<EdgeAB>>))}}

\* documents with nodes and edges at the top and a .graph beside them
GraphsBeside ==
    {JObj([nodes |-> JArr(<<JObj([name |-> JStr("b")])>>), edgesSet |-> JArr(<<EdgeAB>>)]),
     JObj([nodes |-> JArr(<<JObj([name |-> JStr("b")])>>)]),
     JObj([edgesSet |-> JArr(<<EdgeAB>>)]),
     Doc(JArr(<<JObj([id |-> JStr("b")])>>), JArr(<<>>)),
     EmptyObject, JNum(1)}
PrecedenceDocs ==
    {JObj([graph |-> g, nodes |-> JArr(<<NodeA>>), edges |-> JArr(<<EdgeAA>>)]) :
        g \in GraphsBeside}

ParserMessages == {"Unexpected token } in JSON at position 1", "Unexpected end of JSON input"}

JsonTexts ==
    {BadJsonText(m) : m \in ParserMessages}
    \cup {JsonText(v) : v \in UnrecognizedValues \cup {JNull} \cup ShapedValues \cup NestedValues
                             \cup PrecedenceDocs}

\* lines of a simple edge list: with two tokens or more, and with fewer
ValidLines ==
    {<<"a", " ", "b">>, <<" ", "b", "  ", "a", " ">>, <<"a", " ", "a">>,
     <<"a", "  ", "b", " ", "x", "  ", "my">>, <<"a", ";", "b", " ", "c", " ", "1", ".">>,
     <<"c", " ", Arrow, " ", "a">>}
MalformedLines == {<<"a">>, <<" ", "x", ";", " ">>, <<"a", "-", "b">>}
BlankLines == {<<>>, <<"  ">>}
SimpleTexts == SeqsUpTo(ValidLines \cup MalformedLines \cup BlankLines, MaxLines)

\* texts with one marker only
OneMarkerTexts ==
    {<<<<m>>, <<"a", " ", "b">>>> : m \in Markers}
    \cup {<<<<"a", " ", m>>>> : m \in Markers}

\* the canonical headered text: marker, names, optional blank line, marker,
\* edge lines
NamesLines ==
    {<<"a", ";", "b">>, <<"a", ";", " ", "b", ";", ";", " ">>, <<" ", "a", " ", ";", "a">>,
     <<"my", " ", "a", ";", "b">>, <<"c">>, <<"x", "-", "1", ";", "a", ".", "b">>}
EdgeLines ==
    {<<"1", ".", " ", "a", " ", Arrow, " ", "b">>, <<"2", ".", "a", Arrow, "c">>,
     <<"x", "  ", Arrow, "x">>, <<" ", "b", " ", Arrow, " ", "a", " ", Arrow, " ", "c">>}
SkippedEdgeLines == {<<"a", " ", "b">>, <<"a", " ", "-", " ", "b">>, <<"a", " ", Arrow>>}
Canonical(names, blank, edgeLines) ==
    <<<<NodesMarker>>, names>> \o blank \o <<<<EdgesMarker>>>> \o edgeLines
\* edge lines that hold the arrow pattern inside other text: a name with a
\* dot or a hyphen, text before the source, text after the target
PartialEdgeLines ==
    {<<"1", ".", " ", "a", ".", "b", " ", Arrow, " ", "c">>,
     <<"a", "-", "b", " ", Arrow, " ", "c">>,
     <<"a", " ", Arrow, " ", "b", " ", "x">>,
     <<"my", " ", "a", " ", Arrow, " ", "b">>}
PartialTexts ==
    {Canonical(<<"a", ";", "b">>, <<>>, edgeLines) :
        edgeLines \in SeqsUpTo(PartialEdgeLines \cup {<<"1", ".", " ", "a", " ", Arrow, " ", "b">>},
                               MaxLines)}

CanonicalTexts ==
    {Canonical(names, blank, edgeLines) :
        names \in NamesLines, blank \in {<<>>, <<<<>>>>},
        edgeLines \in SeqsUpTo(EdgeLines \cup SkippedEdgeLines, MaxLines)}

\* headered texts off the canonical grammar: no names line, the sections
\* swapped, both markers on one line, text before the first marker
OtherHeaderedTexts ==
    {<<<<NodesMarker>>, <<EdgesMarker>>>> \o edgeLines : edgeLines \in SeqsUpTo(EdgeLines, 1)}
    \cup {<<<<EdgesMarker>>, line, <<NodesMarker>>, <<"a", ";", "b">>>> : line \in EdgeLines}
    \cup {<<<<NodesMarker, " ", EdgesMarker>>, line>> : line \in EdgeLines \cup NamesLines}
    \cup {<<line, <<NodesMarker>>, <<"a">>, <<EdgesMarker>>, line>> : line \in EdgeLines}
    \cup {<<<<NodesMarker>>, <<"a">>, <<EdgesMarker>>, <<"1", ".", NodesMarker, Arrow, "b">>>>}

\* headered texts without a names line: 'Graph Nodes:' followed, directly
\* or after a blank line, by 'Graph Edges:'; and 'Graph Nodes:' as the last
\* line of the text
NoNamesTexts ==
    {<<<<NodesMarker>>>> \o blank \o <<<<EdgesMarker>>>> \o edgeLines :
        blank \in {<<>>, <<<<>>>>, <<<<"  ">>>>}, edgeLines \in SeqsUpTo(EdgeLines, 1)}
MarkerLastTexts == {<<<<EdgesMarker>>, line, <<NodesMarker>>>> : line \in EdgeLines}

TxtTexts ==
    SimpleTexts \cup OneMarkerTexts \cup CanonicalTexts \cup OtherHeaderedTexts
    \cup PartialTexts \cup NoNamesTexts \cup MarkerLastTexts

\* named files: every name of at most MaxNameParts parts, with a text or a
\* JSON text as the extension asks
FileNames == UNION {[1..n -> NameParts] : n \in 1..MaxNameParts}
SomeTxtTexts ==
    {<<<<"a", " ", "b">>, <<"a">>>>,
     Canonical(<<"a", ";", "b">>, <<>>, <<<<"1", ".", " ", "a", " ", Arrow, " ", "c">>>>)}
SomeJsonTexts ==
    {BadJsonText("Unexpected end of JSON input"), JsonText(EmptyObject),
     JsonText(Doc(JArr(<<NodeA>>), JArr(<<EdgeAA>>))),
     JsonText(CustomDoc(JArr(<<NodeA>>), JArr(<<EdgeAB>>))),
     JsonText(Nested(Doc(JArr(<<NodeA, NodeA>>), JArr(<<>>)), 2))}
TxtFiles ==
    {[name |-> n, content |-> c] :
        n \in {m \in FileNames : ToLowerCase(m[Len(m)]) # "json"}, c \in SomeTxtTexts}
JsonFiles ==
    {[name |-> n, content |-> c] :
        n \in {m \in FileNames : ToLowerCase(m[Len(m)]) # "txt"}, c \in SomeJsonTexts}

InitParse ==
    /\ InitProgram
    /\ parseOutput = NoOutput
    /\ \/ \E c \in JsonTexts : parseInput = [kind |-> "json", content |-> c]
       \/ \E c \in TxtTexts : parseInput = [kind |-> "txt", content |-> c]
       \/ \E f \in TxtFiles : parseInput = [kind |-> "file", file |-> f]
       \/ \E f \in JsonFiles : parseInput = [kind |-> "file", file |-> f]

(***************************************************************************)
(* SpecParse: each parser applied once to each input.                      *)
(***************************************************************************)
NextParse ==
    \/ callProcessJsonFile
    \/ callProcessTxtFile
    \/ callProcessFile

SpecParse == InitParse /\ [][NextParse]_vars

-----------------------------------------------------------------------------
(***************************************************************************)
(* Properties.                                                             *)
(***************************************************************************)
AllLayoutKeys == LayoutKeys \cup {UnknownKey}

\* a layout run started by applyLayout has not yet reported 'layoutstop'
LayoutInFlight == layoutPending # Null

\* C1: while a layout run is in flight, an applyLayout call, made directly
\* or through Index.handleLayoutChange, is a no-op: the layout key, the
\* running flag, the run in flight and the handle list stay as they are.
C1_ApplyWhileRunningIsNoOp ==
    [][(/\ LayoutInFlight
        /\ \E k \in AllLayoutKeys : applyLayout(k) \/ handleLayoutChange(k))
       => UNCHANGED <<currentLayout, isLayoutRunning, layoutPending, resizeHandles>>]_vars

\* C1, the part the code keeps: a direct applyLayout call while a layout is
\* marked running changes nothing at all
C1_DirectCallWhileRunning ==
    [][(isLayoutRunning /\ \E k \in AllLayoutKeys : applyLayout(k))
       => UNCHANGED <<pageVars, cyVars, vizVars, asyncVars>>]_vars

\* C1: a state in which the layout key was changed while a run is in flight
C1_KeyChangedInFlight ==
    LayoutInFlight /\ isLayoutRunning /\ currentLayout # "dagre"
       /\ layoutPending # currentLayout

\* every handle sits on the corner of its node's current rendered box
HandlesFresh ==
    \A i \in 1..Len(resizeHandles) :
        LET h == resizeHandles[i]
            bb == renderedBoundingBox(h.nodeId, style, posLayout, zoom, pan)
        IN  /\ h.nodeId \in CyNodes
            /\ h.x = CornerX(bb, h.position)
            /\ h.y = CornerY(bb, h.position)

\* C4: after any pan or zoom that happens while a node is selected and its
\* handles are shown (no drag, no layout running), every handle is on the
\* corner of its node's current rendered bounding box.
C4_HandlesFollowViewport ==
    [][(/\ zoom' # zoom \/ pan' # pan
        /\ selected # {} /\ selected' = selected
        /\ resizeHandles # <<>>
        /\ ~isDragging /\ ~isLayoutRunning /\ ~isLayoutRunning')
       => HandlesFresh']_vars

\* C4: handles shown for a selected node that are off the node's corners
C4_StaleHandles ==
    /\ selected # {} /\ resizeHandles # <<>>
    /\ ~isDragging /\ ~isLayoutRunning
    /\ ~HandlesFresh

\* C5: applyLayout with a key that has no configuration is a no-op: no run
\* starts, the running flag stays false and the handles are unchanged.
C5_UnknownKeyIsNoOp ==
    [][applyLayout(UnknownKey)
       => UNCHANGED <<isLayoutRunning, layoutPending, resizeHandles>>]_vars

\* C5: a later applyLayout with a valid key still runs, that is, the flag
\* is never left set with no run in flight
C5_FlagOnlyWhileInFlight == CyExists /\ isLayoutRunning => LayoutInFlight

\* C5: the flag is stuck: marked running with nothing in flight
C5_FlagStuck == CyExists /\ isLayoutRunning /\ ~LayoutInFlight

\* C3: only one drag is active at a time: from pointer-down to pointer-up
\* the DragState is constant, so no pointer-down on a handle received while
\* Dragging replaces it.
C3_DragStateConstantWhileDragging ==
    [][(isDragging /\ isDragging') => dragState' = dragState]_vars

\* C3: a drag whose DragState belongs to a later pointer-down than the one
\* that started it (second drag counted, node already resized by the first)
C3_DragStateReplaced ==
    /\ isDragging /\ drags = 2
    /\ dragState.originalWidth # DefaultStyle.width

\* the DragState a pointer-down on handle h at (x, y) records
DragStateFor(h, x, y) ==
    [handleId |-> h.id, nodeId |-> h.nodeId, position |-> h.position,
     startX |-> x, startY |-> y,
     originalWidth |-> style[h.nodeId].width,
     originalHeight |-> style[h.nodeId].height,
     shape |-> IF tag[h.nodeId] # NoTag THEN tag[h.nodeId] ELSE style[h.nodeId].shape]

\* panning and zooming are disabled exactly while a DragState is active
ViewportLockedIffDragging ==
    /\ isDragging <=> dragState # NoDrag
    /\ panningEnabled <=> dragState = NoDrag
    /\ zoomingEnabled <=> dragState = NoDrag

SizesWithinBounds ==
    \A n \in NodeIds :
        /\ style[n].width \in MinSize..MaxSize
        /\ style[n].height \in MinSize..MaxSize

SignX(position) == IF position \in {"br", "tr"} THEN 1 ELSE -1
SignY(position) == IF position \in {"br", "bl"} THEN 1 ELSE -1
\* the unclamped sizes of a pointer-move to (x, y)
RawWidth(ds, x, z) ==
    ds.originalWidth + SignX(ds.position) * (((x - ds.startX) \div z) \div Sensitivity)
RawHeight(ds, y, z) ==
    ds.originalHeight + SignY(ds.position) * (((y - ds.startY) \div z) \div Sensitivity)
\* for a regular shape, the raw size of the dimension with the larger
\* absolute delta (height on a tie)
RawDriver(ds, x, y, z) ==
    IF Abs((x - ds.startX) \div z) > Abs((y - ds.startY) \div z)
    THEN RawWidth(ds, x, z) ELSE RawHeight(ds, y, z)
Exact(raw) == IF raw < MinSize THEN MinSize ELSE IF raw > MaxSize THEN MaxSize ELSE raw
RegularShapes == {"circle", "square", "diamond"}

\* C7: a resize never leaves a node's width or height outside [30, 200]:
\* a pointer-move whose computed size is below 30 applies exactly 30, one
\* above 200 applies exactly 200, for every corner and shape, including the
\* dimension derived from the aspect ratio.
C7_SizeClamped ==
    /\ []SizesWithinBounds
    /\ [][\A x \in MoveCoords, y \in MoveCoords :
            handleResizeMove(x, y) =>
               LET ds == dragState
                   n == ds.nodeId
               IN  IF ds.shape \in RegularShapes
                   THEN /\ style'[n].width = Exact(RawDriver(ds, x, y, zoom))
                        /\ style'[n].height = Exact(RawDriver(ds, x, y, zoom))
                   ELSE /\ style'[n].width = Exact(RawWidth(ds, x, zoom))
                        /\ style'[n].height = Exact(RawHeight(ds, y, zoom))]_vars

\* C7: a drag that hit the upper bound on one dimension and the lower
\* bound on the other
C7_BothBoundsHit ==
    /\ isDragging
    /\ style[dragState.nodeId].width = MaxSize
    /\ style[dragState.nodeId].height = MinSize

\* nodes of a regular shape are as wide as they are high
RegularNodesSquare ==
    \A n \in CyNodes :
        tag[n] \in RegularShapes =>
            style[n].width = style[n].height /\ style[n].width <= MaxSize

\* C8: a node whose effective shape is circle, square or diamond keeps
\* width = height through every resize, the dimension with the larger
\* absolute delta determining both, and the result never exceeds 200.
C8_RegularShapesStaySquare ==
    /\ []RegularNodesSquare
    /\ [][\A x \in MoveCoords, y \in MoveCoords :
            (handleResizeMove(x, y) /\ dragState.shape \in RegularShapes) =>
               /\ style'[dragState.nodeId].width = style'[dragState.nodeId].height
               /\ style'[dragState.nodeId].width =
                     Exact(RawDriver(dragState, x, y, zoom))]_vars

\* C8: a square dragged by (+40, +40) at zoom 1 from 60x60 to 80x80
C8_SquareResized ==
    /\ isDragging /\ dragState.shape = "square" /\ dragState.position = "br"
    /\ dragState.originalWidth = RegularSize /\ zoom = 1
    /\ style[dragState.nodeId].width = 80
    /\ style[dragState.nodeId].height = 80

\* files processFile rejects: an extension other than .txt and .json, or
\* a .json file that does not parse or has no known shape
FileFails(f) ==
    \/ f.ext \notin {"txt", "json"}
    \/ f.ext = "json" /\ f.content \notin Docs

\* C2: a failed upload never replaces the page's document: when processFile
\* rejects, handleUpload does not call onDataUploaded, so graphData keeps
\* its value, the modal's error is set and the modal is not closed; only a
\* successful parse replaces graphData.
C2_FailedUploadKeepsDocument ==
    /\ [][(uploading # NoFile /\ uploading' = NoFile /\ FileFails(uploading))
          => /\ graphData' = graphData
             /\ error' # Null
             /\ isUploadModalOpen' = isUploadModalOpen]_vars
    /\ [][(graphData' # graphData /\ graphData' # NoDoc)
          => /\ uploading # NoFile /\ ~FileFails(uploading)
             /\ graphData' = uploading.content]_vars

\* C2: a rejected upload, with a document already loaded and the modal
\* still open and showing the error
C2_RejectedWithDocumentLoaded ==
    /\ graphData = "d2" /\ isUploadModalOpen
    /\ error # Null /\ ~isProcessing /\ uploading = NoFile
    /\ FileFails(selectedFile)

\* every node of the instance has a snapshot, and it still holds the
\* styles of the initial render
SnapshotsAreInitialRender ==
    \A n \in CyNodes : n \in DOMAIN originalStyles /\ originalStyles[n] = DefaultStyle

\* C9: after any colour, border, opacity and shape changes and resize
\* drags, resetAllNodesToOriginal gives every node that has a snapshot the
\* background colour, border colour, border width, opacity, shape, width
\* and height of its initial render and removes its shape tag.
C9_ResetRestoresSnapshot ==
    /\ []SnapshotsAreInitialRender
    /\ [][resetAllNodesToOriginal
          => \A n \in CyNodes :
                /\ style'[n] = originalStyles[n]
                /\ style'[n] = DefaultStyle
                /\ tag'[n] = NoTag]_vars

\* C9: right after a reset that followed a shape change and a drag: the
\* selection is kept, the handles are gone, the shape timer is still due
C9_AfterReset ==
    /\ selected # {} /\ resizeHandles = <<>>
    /\ shapeTimers > 0 /\ drags > 0
    /\ \A n \in CyNodes : style[n] = DefaultStyle /\ tag[n] = NoTag

\* a panel interaction that carries a colour isValidColor rejects
PanelCarriesInvalidColor ==
    \/ /\ ~isValidColor(customNodeColor)
       /\ \E e \in BOOLEAN : handleNodeColorClick(customNodeColor, e)
    \/ \E t \in InvalidColors, e \in BOOLEAN : handleBorderColorInputChange(t, e)
    \/ /\ ~isValidColor(customBorderColor)
       /\ \E w \in WidthInputs, e \in BOOLEAN : handleBorderWidthChange(w, e)

\* C10: no invalid colour string is ever applied to a node: a panel
\* interaction carrying a colour the validity check rejects mutates no node.
C10_InvalidColorMutatesNothing ==
    [][PanelCarriesInvalidColor => UNCHANGED <<style, tag>>]_vars

\* C10: a rejected border colour was handed to the engine with a border
\* width and the engine kept it
C10_WidthAppliedWithInvalidColor ==
    /\ ~isValidColor(customBorderColor)
    /\ \E n \in selected : style[n].borderColor \in InvalidColors


(***************************************************************************)
(* Properties of the parsers (SpecParse).                                  *)
(***************************************************************************)
JsonCallReturned == parseInput.kind = "json" /\ parseOutput.returned
TxtCallReturned == parseInput.kind = "txt" /\ parseOutput.returned
FileCallReturned == parseInput.kind = "file" /\ parseOutput.returned

\* message under n "Invalid JSON file: " prefixes
RECURSIVE Prefixed(_, _)
Prefixed(message, n) ==
    IF n = 0 THEN message ELSE InvalidJsonPrefix \o Prefixed(message, n - 1)

\* the error is an InvalidJson error: its message starts with the prefix
IsInvalidJson(message) ==
    \E inner \in ParserMessages \cup {TypeErrorMessage, NotRecognizedMessage},
       n \in 1..(MaxItems + 2) : message = Prefixed(inner, n)

\* the error is an UnrecognizedJsonSchema error
IsUnrecognizedJsonSchema(message) == message = NotRecognizedMessage

\* valid JSON that matches none of the shapes, at the top or below .graph
MatchesNoShape(v) == \E u \in UnrecognizedValues, n \in 0..MaxItems : v = Nested(u, n)

\* C11: processJsonFile distinguishes its two failures: text that is not
\* parseable JSON fails with InvalidJson carrying the parser message; valid
\* JSON that matches none of the shapes, directly or below .graph, fails
\* with UnrecognizedJsonSchema and not with InvalidJson.
C11_JsonFailuresDistinguished ==
    JsonCallReturned =>
       /\ ~parseInput.content.parses =>
             /\ ~parseOutput.ok
             /\ parseOutput.message = InvalidJsonPrefix \o parseInput.content.parserMessage
       /\ (parseInput.content.parses /\ MatchesNoShape(parseInput.content.value)) =>
             /\ ~parseOutput.ok
             /\ IsUnrecognizedJsonSchema(parseOutput.message)
             /\ ~IsInvalidJson(parseOutput.message)

\* C11, the part that holds: malformed text fails with the parser message
\* under one prefix, and unrecognized JSON fails too
C11_BothFail ==
    JsonCallReturned =>
       /\ ~parseInput.content.parses =>
             /\ ~parseOutput.ok
             /\ parseOutput.message = InvalidJsonPrefix \o parseInput.content.parserMessage
       /\ (parseInput.content.parses /\ MatchesNoShape(parseInput.content.value)) =>
             ~parseOutput.ok

\* C11 witness: the empty object, valid JSON of no shape, was reported with
\* the InvalidJson prefix
C11_UnrecognizedReportedAsInvalidJson ==
    /\ JsonCallReturned
    /\ parseInput.content.parses
    /\ parseInput.content.value = EmptyObject
    /\ ~parseOutput.ok
    /\ parseOutput.message = InvalidJsonPrefix \o NotRecognizedMessage

\* the names on each header line: split on ';', trimmed, empty ones dropped
HeaderNames(line) ==
    CASE line = <<"a", ";", "b">> -> {"a", "b"}
      [] line = <<"a", ";", " ", "b", ";", ";", " ">> -> {"a", "b"}
      [] line = <<" ", "a", " ", ";", "a">> -> {"a"}
      [] line = <<"my", " ", "a", ";", "b">> -> {"my a", "b"}
      [] line = <<"c">> -> {"c"}
      [] line = <<"x", "-", "1", ";", "a", ".", "b">> -> {"x-1", "a.b"}

Ids(nodes) == [i \in 1..Len(nodes) |-> nodes[i].id]
Range(seq) == {seq[i] : i \in 1..Len(seq)}
NoRepeats(seq) == \A i, j \in 1..Len(seq) : seq[i] = seq[j] => i = j
CountsMatch(out) ==
    /\ out.metadata.nodeCount = Len(out.nodes)
    /\ out.metadata.edgeCount = Len(out.edges)

\* C12: in headered mode on the canonical grammar, the ids of the returned
\* nodes are the names of the header line together with the source and the
\* target of every parsed edge, each id once, and the metadata counts are
\* the lengths of the node and the edge arrays.
C12_HeaderedNodeSet ==
    (TxtCallReturned /\ parseInput.content \in CanonicalTexts) =>
       /\ parseOutput.ok
       /\ Range(Ids(parseOutput.nodes)) =
             {JStr(name) : name \in HeaderNames(parseInput.content[2])}
             \cup {parseOutput.edges[i].source : i \in 1..Len(parseOutput.edges)}
             \cup {parseOutput.edges[i].target : i \in 1..Len(parseOutput.edges)}
       /\ NoRepeats(Ids(parseOutput.nodes))
       /\ CountsMatch(parseOutput)

\* C12 witness: a headered text whose edges name a node twice and bring in
\* a node that the header line does not name
C12_EdgeIntroducesNode ==
    /\ TxtCallReturned
    /\ parseInput.content \in CanonicalTexts
    /\ Len(parseOutput.edges) = 2
    /\ parseOutput.edges[1].source = parseOutput.edges[2].source
    /\ \E i \in 1..Len(parseOutput.edges) :
          parseOutput.edges[i].target \notin
             {JStr(name) : name \in HeaderNames(parseInput.content[2])}

\* what each valid line of a simple edge list says: first token, second
\* token, and the remaining tokens joined by one space (none: no label)
LineEdge(line) ==
    CASE line = <<"a", " ", "b">> ->
           [source |-> JStr("a"), target |-> JStr("b"), label |-> JUndefined]
      [] line = <<" ", "b", "  ", "a", " ">> ->
           [source |-> JStr("b"), target |-> JStr("a"), label |-> JUndefined]
      [] line = <<"a", " ", "a">> ->
           [source |-> JStr("a"), target |-> JStr("a"), label |-> JUndefined]
      [] line = <<"a", "  ", "b", " ", "x", "  ", "my">> ->
           [source |-> JStr("a"), target |-> JStr("b"), label |-> JStr("x my")]
      [] line = <<"a", ";", "b", " ", "c", " ", "1", ".">> ->
           [source |-> JStr("a;b"), target |-> JStr("c"), label |-> JStr("1.")]
      [] line = <<"c", " ", Arrow, " ", "a">> ->
           [source |-> JStr("c"), target |-> JStr("-->"), label |-> JStr("a")]

IsValidLine(line) == line \in ValidLines
IsMalformedLine(line) == line \in MalformedLines

\* C13: in simple edge-list mode a text with N valid lines (two tokens or
\* more) and M malformed lines yields exactly N edges, one per valid line
\* in input order, with the first token as source, the second as target and
\* the remaining tokens joined by one space as label (no label when none
\* remain); the malformed lines add no edge and no node and no error is
\* raised.
C13_SimpleEdgeList ==
    (TxtCallReturned /\ parseInput.content \in SimpleTexts) =>
       LET valid == SelectSeq(parseInput.content, IsValidLine)
           edges == parseOutput.edges
       IN  /\ parseOutput.ok
           /\ Len(edges) = Len(valid)
           /\ \A i \in 1..Len(valid) :
                 /\ edges[i].source = LineEdge(valid[i]).source
                 /\ edges[i].target = LineEdge(valid[i]).target
                 /\ edges[i].label = LineEdge(valid[i]).label
           /\ Range(Ids(parseOutput.nodes)) =
                 {LineEdge(valid[i]).source : i \in 1..Len(valid)}
                 \cup {LineEdge(valid[i]).target : i \in 1..Len(valid)}

\* C13 witness: a malformed line between two valid ones, the first of them
\* with a label, gave two edges
C13_MalformedLineSkipped ==
    /\ TxtCallReturned
    /\ parseInput.content \in SimpleTexts
    /\ Len(parseInput.content) = 3
    /\ IsValidLine(parseInput.content[1])
    /\ IsMalformedLine(parseInput.content[2])
    /\ IsValidLine(parseInput.content[3])
    /\ parseOutput.ok
    /\ Len(parseOutput.edges) = 2
    /\ parseOutput.edges[1].label = JStr("x my")
    /\ parseOutput.edges[2].label = JUndefined

\* the dispatch key of a file name: the lowercased text after its last dot
DispatchKey(name) ==
    CASE name[Len(name)] \in {"txt", "TXT"} -> "txt"
      [] name[Len(name)] \in {"json", "Json"} -> "json"
      [] name[Len(name)] = "XML" -> "xml"
      [] OTHER -> name[Len(name)]

\* C14: every document that processFile returns, through the headered or
\* the simple text branch or the custom, standard or passthrough JSON
\* branch, has metadata.nodeCount = nodes.length, metadata.edgeCount =
\* edges.length and metadata.fileType equal to the extension it was
\* dispatched on; the same holds of the two parsers called directly.
C14_ResultInvariant ==
    (parseOutput.returned /\ parseOutput.ok) =>
       /\ CountsMatch(parseOutput)
       /\ parseInput.kind = "file" =>
             parseOutput.metadata.fileType = DispatchKey(parseInput.file.name)
       /\ parseInput.kind = "txt" => parseOutput.metadata.fileType = "txt"
       /\ parseInput.kind = "json" => parseOutput.metadata.fileType = "json"

\* C14 witness: a file named graph.Json whose document lies two levels of
\* .graph deep was returned with two nodes and no edge
C14_PassthroughDocumentReturned ==
    /\ FileCallReturned
    /\ parseInput.file.name = <<"graph", "Json">>
    /\ parseInput.file.content.parses
    /\ parseInput.file.content.value = Nested(Doc(JArr(<<NodeA, NodeA>>), JArr(<<>>)), 2)
    /\ parseOutput.ok
    /\ Len(parseOutput.nodes) = 2
    /\ Len(parseOutput.edges) = 0

\* edge-<index> for the index of the i-th element of an array
EdgeIdAt(i) == <<"edge-0", "edge-1", "edge-2", "edge-3", "edge-4">>[i]

HasField(object, key) == key \in DOMAIN object.f

\* C15: a standard document {nodes, edges} whose nodes have non-empty
\* string ids and whose edges have non-empty string sources and targets
\* comes back with the same node ids in the same order and the same
\* (source, target) pairs in the same order, self-loops and parallel edges
\* included; an edge without an id gets the id edge-<index>, an edge with
\* one keeps it.
C15_StandardRoundTrip ==
    (JsonCallReturned /\ parseInput.content.parses
        /\ parseInput.content.value \in PlainDocs) =>
       LET nodesIn == parseInput.content.value.f.nodes.e
           edgesIn == parseInput.content.value.f.edges.e
       IN  /\ parseOutput.ok
           /\ Len(parseOutput.nodes) = Len(nodesIn)
           /\ \A i \in 1..Len(nodesIn) : parseOutput.nodes[i].id = nodesIn[i].f.id
           /\ Len(parseOutput.edges) = Len(edgesIn)
           /\ \A i \in 1..Len(edgesIn) :
                 /\ parseOutput.edges[i].source = edgesIn[i].f.source
                 /\ parseOutput.edges[i].target = edgesIn[i].f.target
                 /\ parseOutput.edges[i].id =
                       IF HasField(edgesIn[i], "id") THEN edgesIn[i].f.id
                       ELSE JStr(EdgeIdAt(i))

\* C15 witness: two parallel self-loops on a, the first with an id and the
\* second without, came back as they were
C15_ParallelSelfLoopsKept ==
    /\ JsonCallReturned
    /\ parseInput.content.parses
    /\ parseInput.content.value =
          Doc(JArr(<<NodeA>>),
              JArr(<<JObj([id |-> JStr("e"), source |-> JStr("a"), target |-> JStr("a")]),
                     EdgeAA>>))
    /\ parseOutput.ok
    /\ Len(parseOutput.edges) = 2
    /\ parseOutput.edges[2].id = JStr("edge-1")
    /\ parseOutput.edges[2].source = parseOutput.edges[2].target

\* C16: processFile dispatches on the lowercased text after the last dot of
\* the file name; a file whose extension is neither txt nor json (xml, dot
\* and graphml among them) fails with the unsupported-format error that
\* names the extension, and no document is returned.
C16_UnsupportedExtensionFails ==
    (FileCallReturned /\ DispatchKey(parseInput.file.name) \notin {"txt", "json"}) =>
       /\ ~parseOutput.ok
       /\ parseOutput.message = UnsupportedPrefix \o DispatchKey(parseInput.file.name)

\* C16, the other direction: txt and json in any letter case are dispatched
\* to their parser and never fail as unsupported
C16_SupportedExtensionDispatched ==
    (FileCallReturned /\ DispatchKey(parseInput.file.name) \in {"txt", "json"}) =>
       /\ parseOutput.ok => parseOutput.metadata.fileType = DispatchKey(parseInput.file.name)
       /\ ~parseOutput.ok =>
             parseOutput.message # UnsupportedPrefix \o DispatchKey(parseInput.file.name)

\* C16 witness: the file graph.XML was refused as 'xml'
C16_XmlRefused ==
    /\ FileCallReturned
    /\ parseInput.file.name = <<"graph", "XML">>
    /\ ~parseOutput.ok
    /\ parseOutput.message = "Unsupported file type: xml"

\* a ?? b: a when it is present (neither null nor undefined), else b
Present(v) == v.t \notin {"null", "undefined"}
Nullish(a, b) == IF Present(a) THEN a ELSE b

NodeIdAt(i) == <<"node-0", "node-1", "node-2", "node-3", "node-4">>[i]
NodeLabelAt(i) == <<"Node 0", "Node 1", "Node 2", "Node 3", "Node 4">>[i]

\* every string, number or boolean field of the input record is in the
\* output record with the same value
ScalarsCopied(in, out) ==
    \A k \in DOMAIN in.f :
       in.f[k].t \in {"string", "number", "boolean"} => (k \in DOMAIN out /\ out[k] = in.f[k])

NodeAsSpecified(in, out, i) ==
    /\ out.id = Nullish(Get(in, "id"), Nullish(Get(in, "name"), JStr(NodeIdAt(i))))
    /\ out.label = Nullish(Get(in, "label"),
                      Nullish(Get(in, "name"), Nullish(Get(in, "id"), JStr(NodeLabelAt(i)))))
    /\ ScalarsCopied(in, out)

EdgeAsSpecified(in, out, i) ==
    /\ out.id = Nullish(Get(in, "id"), JStr(EdgeIdAt(i)))
    /\ out.source = Nullish(Get(in, "source"), Get(in, "from"))
    /\ out.target = Nullish(Get(in, "target"), Get(in, "to"))
    /\ ScalarsCopied(in, out)

VaryingDocParsed ==
    /\ JsonCallReturned
    /\ parseInput.content.parses
    /\ parseInput.content.value \in VaryingDocs

\* C19: the standard shape falls back on absence only (null or undefined),
\* so that an empty string or 0 counts as present: node id = id, else name,
\* else node-<index>; label = label, else name, else id, else 'Node
\* <index>'; edge id = id, else edge-<index>; source = source, else from;
\* target = target, else to; and every string, number or boolean field of
\* an input record is in the output record unchanged.
C19_NullishFallback ==
    VaryingDocParsed =>
       LET nodesIn == parseInput.content.value.f.nodes.e
           edgesIn == parseInput.content.value.f.edges.e
       IN  /\ parseOutput.ok
           /\ Len(parseOutput.nodes) = Len(nodesIn)
           /\ Len(parseOutput.edges) = Len(edgesIn)
           /\ \A i \in 1..Len(nodesIn) : NodeAsSpecified(nodesIn[i], parseOutput.nodes[i], i)
           /\ \A i \in 1..Len(edgesIn) : EdgeAsSpecified(edgesIn[i], parseOutput.edges[i], i)

\* C19, the part that holds: the edges are as specified, and the scalar
\* fields of every node are copied unchanged
C19_EdgesAndScalarFields ==
    VaryingDocParsed =>
       LET nodesIn == parseInput.content.value.f.nodes.e
           edgesIn == parseInput.content.value.f.edges.e
       IN  /\ parseOutput.ok
           /\ Len(parseOutput.nodes) = Len(nodesIn)
           /\ Len(parseOutput.edges) = Len(edgesIn)
           /\ \A i \in 1..Len(nodesIn) : ScalarsCopied(nodesIn[i], parseOutput.nodes[i])
           /\ \A i \in 1..Len(edgesIn) : EdgeAsSpecified(edgesIn[i], parseOutput.edges[i], i)

\* C19 witness: the node {name: ""}, whose name is present and empty, came
\* back with the generated id node-0 and the label 'Node 0'
C19_EmptyNameReplaced ==
    /\ VaryingDocParsed
    /\ parseInput.content.value = Doc(JArr(<<JObj([name |-> JStr("")])>>), JArr(<<>>))
    /\ parseOutput.ok
    /\ parseOutput.nodes[1].id = JStr("node-0")
    /\ parseOutput.nodes[1].label = JStr("Node 0")

Node1IdAt(i) == <<"node1-0", "node1-1", "node1-2", "node1-3", "node1-4">>[i]
Node2IdAt(i) == <<"node2-0", "node2-1", "node2-2", "node2-3", "node2-4">>[i]

\* the endpoint an edge gets from node1 or node2: its name, or the fallback
\* when the node is missing or has no name (an empty name may give either)
EndpointAsSpecified(node, out, fallback) ==
    IF Get(node, "name") = JStr("") THEN out \in {JStr(""), JStr(fallback)}
    ELSE IF Present(Get(node, "name")) THEN out = Get(node, "name")
    ELSE out = JStr(fallback)

CustomDocParsed ==
    /\ JsonCallReturned
    /\ parseInput.content.parses
    /\ parseInput.content.value \in CustomDocs

\* C20: in the custom nested shape every entry of graph.edgesSet yields
\* exactly one edge; an entry whose node1 (node2) is missing or has no name
\* gets the source node1-<index> (the target node2-<index>), and the parse
\* succeeds.
C20_MissingEndpointFallsBack ==
    CustomDocParsed =>
       LET edgesIn == parseInput.content.value.f.graph.f.edgesSet.e
       IN  /\ parseOutput.ok
           /\ Len(parseOutput.edges) = Len(edgesIn)
           /\ \A i \in 1..Len(edgesIn) :
                 /\ EndpointAsSpecified(Get(edgesIn[i], "node1"),
                                        parseOutput.edges[i].source, Node1IdAt(i))
                 /\ EndpointAsSpecified(Get(edgesIn[i], "node2"),
                                        parseOutput.edges[i].target, Node2IdAt(i))

\* C20, the part that holds: when node1 and node2 are there in every entry,
\* with or without a name, the parse succeeds with one edge per entry and
\* the fallbacks as specified
C20_NamelessEndpointFallsBack ==
    (CustomDocParsed
        /\ \A i \in 1..Len(parseInput.content.value.f.graph.f.edgesSet.e) :
              /\ Present(Get(parseInput.content.value.f.graph.f.edgesSet.e[i], "node1"))
              /\ Present(Get(parseInput.content.value.f.graph.f.edgesSet.e[i], "node2"))) =>
       LET edgesIn == parseInput.content.value.f.graph.f.edgesSet.e
       IN  /\ parseOutput.ok
           /\ Len(parseOutput.edges) = Len(edgesIn)
           /\ \A i \in 1..Len(edgesIn) :
                 /\ EndpointAsSpecified(Get(edgesIn[i], "node1"),
                                        parseOutput.edges[i].source, Node1IdAt(i))
                 /\ EndpointAsSpecified(Get(edgesIn[i], "node2"),
                                        parseOutput.edges[i].target, Node2IdAt(i))

\* C20 witness: an entry with node2 named b and no node1 made the whole
\* parse fail
C20_MissingNode1Throws ==
    /\ CustomDocParsed
    /\ parseInput.content.value =
          CustomDoc(JArr(<<>>), JArr(<<JObj([node2 |-> JObj([name |-> JStr("b")])])>>))
    /\ ~parseOutput.ok
    /\ parseOutput.message = InvalidJsonPrefix \o TypeErrorMessage

(***************************************************************************)
(* Properties of the facade with an empty selection (SpecFacade).          *)
(***************************************************************************)
\* one of the three style operations is called while no node is selected
StyleOpOnEmptySelection ==
    /\ selected = {}
    /\ \/ changeSelectedNodesColor("#FF0000", TRUE)
       \/ changeSelectedNodesBorder("#000000", 3, TRUE)
       \/ \E o \in OpacityInputs : changeSelectedNodesOpacity(o)

\* C17: changeSelectedNodesColor, changeSelectedNodesBorder and
\* changeSelectedNodesOpacity called with no node selected leave every
\* node's style, the snapshot map, the handle list and the drag state as
\* they are and pass no style snapshot to the observer.
C17_EmptySelectionIsNoOp ==
    [][StyleOpOnEmptySelection =>
          UNCHANGED <<style, tag, originalStyles, resizeHandles, dragState, isDragging,
                      emissions>>]_vars

\* C17 witness: the canvas is up, a node was restyled by all three
\* operations and then unselected, and no node is selected
C17_NothingSelectedAfterRestyle ==
    /\ CyExists
    /\ selected = {}
    /\ resizeHandles = <<>>
    /\ \E n \in NodeIds :
          /\ style[n].backgroundColor = "#FF0000"
          /\ style[n].borderWidth = 3
          /\ style[n].opacity \in OpacityInputs

(***************************************************************************)
(* Properties of layout completion (SpecLayoutFair).                       *)
(***************************************************************************)
\* C18: every applyLayout call that sets the running flag is followed, the
\* completion callback being scheduled fairly, by a completion that sets
\* the flag back to false: on a mounted canvas the flag never stays true
\* forever.
C18_RunningFlagIsCleared ==
    (CyExists /\ isLayoutRunning) ~> (~isLayoutRunning \/ ~CyExists)

\* C18, the part that holds: a run that was handed to the engine completes,
\* and its completion clears the flag and the run in flight
C18_StartedRunCompletes == LayoutInFlight ~> (~LayoutInFlight /\ ~isLayoutRunning)

\* C18, the part that holds: the completion callback clears the flag, fits
\* the viewport and, when a node is still selected, regenerates the handles
C18_CompletionFitsAndRegenerates ==
    [][(layoutstop /\ CyExists) =>
          /\ ~isLayoutRunning'
          /\ <<zoom', pan'>> \in FitViewports
          /\ selected # {} =>
                resizeHandles' = createResizeHandles(selected, style, posLayout', zoom', pan')]_vars

\* C18 witness: the flag is set and the handles of the selected node were
\* cleared, with no run handed to the engine and so no completion to come
C18_FlagSetWithoutCompletion ==
    /\ CyExists
    /\ isLayoutRunning
    /\ layoutPending = Null
    /\ selected # {}
    /\ resizeHandles = <<>>

(***************************************************************************)
(* Further properties of the parsers (SpecParse).                          *)
(***************************************************************************)
\* C21: node ids are unique in every parsed document: through the headered
\* and the simple text branch and the custom and the standard JSON branch,
\* an input that mentions a node id more than once yields one node with
\* that id.
C21_NodeIdsUnique ==
    (parseOutput.returned /\ parseOutput.ok) => NoRepeats(Ids(parseOutput.nodes))

\* C21, the part that holds: the two text branches, which collect the
\* names in a Set, return every id once
C21_TextNodeIdsUnique ==
    (TxtCallReturned /\ parseOutput.ok) => NoRepeats(Ids(parseOutput.nodes))

\* C21 witness: the standard document with two nodes of id a came back with
\* two nodes of id a
C21_DuplicateIdKept ==
    /\ JsonCallReturned
    /\ parseInput.content.parses
    /\ parseInput.content.value = Doc(JArr(<<NodeA, NodeA>>), JArr(<<>>))
    /\ parseOutput.ok
    /\ Len(parseOutput.nodes) = 2
    /\ parseOutput.nodes[1].id = parseOutput.nodes[2].id

Digits == {"1", "2"}

\* the pieces of a line after its optional '<digits>.' prefix
AfterPrefix(e) ==
    IF Len(e) >= 2 /\ e[1] \in Digits /\ e[2] = "."
    THEN TrimLeft(SubSeq(e, 3, Len(e)))
    ELSE e

\* the whole line is '<token> --> <token>' after the optional prefix
IsWholeLineEdge(line) ==
    LET e == AfterPrefix(Expand(Trim(line)))
        bare == SelectSeq(e, LAMBDA piece : piece \notin WhiteSpace)
    IN  /\ Len(bare) = 3
        /\ bare[1] \in Words /\ bare[2] = Arrow /\ bare[3] \in Words
        /\ Len(e) <= 5
        /\ e[1] \in Words /\ e[Len(e)] \in Words

WholeLineEdge(line) ==
    LET bare == SelectSeq(AfterPrefix(Expand(Trim(line))), LAMBDA piece : piece \notin WhiteSpace)
    IN  [source |-> JStr(bare[1]), target |-> JStr(bare[3])]

\* the lines below the 'Graph Edges:' line of a canonical text
LinesAfterEdgesMarker(content) ==
    LET k == CHOOSE i \in 1..Len(content) : content[i] = <<EdgesMarker>>
    IN  SubSeq(content, k + 1, Len(content))

HeaderedTextParsed ==
    /\ TxtCallReturned
    /\ parseInput.content \in CanonicalTexts \cup PartialTexts

\* C22: in headered mode a line below the 'Graph Edges:' marker yields an
\* edge only if the whole line is an optional '<digits>.' prefix followed
\* by '<token> --> <token>' with tokens of word characters, and then source
\* and target are those two tokens; every other line yields no edge and
\* adds no node.
C22_OnlyWholeLineEdges ==
    HeaderedTextParsed =>
       LET whole == SelectSeq(LinesAfterEdgesMarker(parseInput.content), IsWholeLineEdge)
       IN  /\ parseOutput.ok
           /\ Len(parseOutput.edges) = Len(whole)
           /\ \A i \in 1..Len(whole) :
                 /\ parseOutput.edges[i].source = WholeLineEdge(whole[i]).source
                 /\ parseOutput.edges[i].target = WholeLineEdge(whole[i]).target
           /\ Range(Ids(parseOutput.nodes)) =
                 {JStr(name) : name \in HeaderNames(parseInput.content[2])}
                 \cup {WholeLineEdge(whole[i]).source : i \in 1..Len(whole)}
                 \cup {WholeLineEdge(whole[i]).target : i \in 1..Len(whole)}

\* C22, the part that holds: every line that is wholly an edge yields its
\* edge, in input order among the edges returned, and a line without an
\* arrow between two words yields none
C22_WholeLineEdgesParsed ==
    (HeaderedTextParsed
        /\ \A i \in 1..Len(LinesAfterEdgesMarker(parseInput.content)) :
              \/ IsWholeLineEdge(LinesAfterEdgesMarker(parseInput.content)[i])
              \/ LinesAfterEdgesMarker(parseInput.content)[i] \in SkippedEdgeLines) =>
       LET whole == SelectSeq(LinesAfterEdgesMarker(parseInput.content), IsWholeLineEdge)
       IN  /\ parseOutput.ok
           /\ Len(parseOutput.edges) = Len(whole)
           /\ \A i \in 1..Len(whole) :
                 /\ parseOutput.edges[i].source = WholeLineEdge(whole[i]).source
                 /\ parseOutput.edges[i].target = WholeLineEdge(whole[i]).target

\* C22 witness: the one edge line 'a-b --> c', whose source name holds a
\* hyphen, gave the edge b --> c and the node c
C22_HyphenNameYieldsEdge ==
    /\ TxtCallReturned
    /\ parseInput.content =
          Canonical(<<"a", ";", "b">>, <<>>, <<<<"a", "-", "b", " ", Arrow, " ", "c">>>>)
    /\ parseOutput.ok
    /\ Len(parseOutput.edges) = 1
    /\ parseOutput.edges[1].source = JStr("b")
    /\ parseOutput.edges[1].target = JStr("c")
    /\ JStr("c") \in Range(Ids(parseOutput.nodes))

EdgeEndpoints(edges) ==
    {edges[i].source : i \in 1..Len(edges)} \cup {edges[i].target : i \in 1..Len(edges)}

\* C23: headered mode takes the node names only from the line directly
\* after the 'Graph Nodes:' line: when that line is blank or absent, no node
\* comes from the header, marker text never becomes a node name, and the
\* node set is the set of edge endpoints.
C23_NoNamesLineNoHeaderNodes ==
    (TxtCallReturned /\ parseInput.content \in NoNamesTexts \cup MarkerLastTexts) =>
       /\ parseOutput.ok
       /\ \A i \in 1..Len(parseOutput.nodes) : parseOutput.nodes[i].id \notin {JStr(m) : m \in Markers}
       /\ Range(Ids(parseOutput.nodes)) = EdgeEndpoints(parseOutput.edges)

\* C23, the part that holds: when 'Graph Nodes:' is the last line of the
\* text there is no names line, and the nodes are the edge endpoints
C23_MarkerOnLastLine ==
    (TxtCallReturned /\ parseInput.content \in MarkerLastTexts) =>
       /\ parseOutput.ok
       /\ Range(Ids(parseOutput.nodes)) = EdgeEndpoints(parseOutput.edges)

\* C23 witness: 'Graph Nodes:', a blank line, 'Graph Edges:' and one edge
\* line gave a node named 'Graph Edges:'
C23_MarkerBecameNode ==
    /\ TxtCallReturned
    /\ parseInput.content =
          <<<<NodesMarker>>, <<>>, <<EdgesMarker>>, <<"1", ".", " ", "a", " ", Arrow, " ", "b">>>>
    /\ parseOutput.ok
    /\ Len(parseOutput.nodes) = 3
    /\ parseOutput.nodes[1].id = JStr(EdgesMarker)

\* G has the custom shape: nodes and edgesSet
HasNodesAndEdgesSet(g) ==
    g.t = "object" /\ "nodes" \in DOMAIN g.f /\ "edgesSet" \in DOMAIN g.f

\* the document is {graph: G} and nothing else
IsGraphOnly(v) == v.t = "object" /\ DOMAIN v.f = {"graph"}

SameDocument(a, b) ==
    /\ a.ok = b.ok
    /\ a.ok => (a.nodes = b.nodes /\ a.edges = b.edges /\ a.metadata = b.metadata)

HandleIds(handles) == [i \in 1..Len(handles) |-> handles[i].id]

\* four handles, tl tr bl br, for each selected node and none for any other
HandlesMatchSelection ==
    /\ Len(resizeHandles) = 4 * Cardinality(selected)
    /\ \A n \in selected, c \in {"tl", "tr", "bl", "br"} :
          \E i \in 1..Len(resizeHandles) :
             /\ resizeHandles[i].id = n \o "-" \o c
             /\ resizeHandles[i].nodeId = n
             /\ resizeHandles[i].position = c
    /\ \A i \in 1..Len(resizeHandles) : resizeHandles[i].nodeId \in selected

\* C25: whenever no layout is running, the handle list holds exactly four
\* handles (tl, tr, bl, br, with id <nodeId>-<corner>) for each selected
\* node and no handle for a node that is not selected.
C25_HandlesMatchSelection == ~isLayoutRunning => HandlesMatchSelection

\* C25, the part that holds: every step that changes the selection leaves
\* four handles for each selected node and no other
C25_SelectionChangeRebuildsHandles ==
    [][selected' # selected => HandlesMatchSelection']_vars

\* C25 witness: no layout is running, a node is selected after a reset and
\* the handle list is empty
C25_SelectedWithoutHandles ==
    /\ CyExists
    /\ ~isLayoutRunning
    /\ selected # {}
    /\ resizeHandles = <<>>

\* C26: whenever a new graph document replaces the current one the snapshot
\* map is discarded and recreated: once the document is rendered, the keys
\* of the map are exactly the node ids of the current document, with no
\* entry left from an earlier document.
C26_SnapshotKeysAreCurrentNodes == CyExists => DOMAIN originalStyles = CyNodes

\* C26, the part that holds: every node of the current document has a
\* snapshot
C26_CurrentNodesHaveSnapshot == CyExists => CyNodes \subseteq DOMAIN originalStyles

\* C26 witness: the one-node document d3 is rendered and the map still
\* holds an entry of the document before it
C26_EntryOfEarlierDocument ==
    /\ graphData = "d3"
    /\ \E n \in DOMAIN originalStyles : n \notin CyNodes

\* the sign a corner gives the pointer's horizontal and vertical movement,
\* written as the table of handleResizeMove's switch
CornerSigns ==
    [br |-> [sx |-> 1, sy |-> 1], bl |-> [sx |-> -1, sy |-> 1],
     tr |-> [sx |-> 1, sy |-> -1], tl |-> [sx |-> -1, sy |-> -1]]

\* clamp to [30, 200], written out
ClampTo30And200(v) == IF v < 30 THEN 30 ELSE IF v > 200 THEN 200 ELSE v

\* C27: for a non-regular shape, a pointer-move to (x, y) applies
\* width = clamp(originalWidth + sx * dx / (2 * zoom)) and
\* height = clamp(originalHeight + sy * dy / (2 * zoom)), clamped to
\* [30, 200], with dx = x - startX, dy = y - startY and (sx, sy) =
\* (+1,+1) for br, (-1,+1) for bl, (+1,-1) for tr, (-1,-1) for tl; the
\* width does not depend on dy nor the height on dx.
C27_NonRegularResize ==
    [][\A x \in MoveCoords, y \in MoveCoords :
         (handleResizeMove(x, y) /\ dragState.shape \notin RegularShapes) =>
            LET ds == dragState
                s == CornerSigns[ds.position]
                dx == x - ds.startX
                dy == y - ds.startY
            IN  /\ style'[ds.nodeId].width =
                      ClampTo30And200(ds.originalWidth + (s.sx * dx) \div (2 * zoom))
                /\ style'[ds.nodeId].height =
                      ClampTo30And200(ds.originalHeight + (s.sy * dy) \div (2 * zoom))]_vars

\* C27 witness: an ellipse dragged by its bottom-left handle by (+40, +680)
\* at zoom 1: the width shrank from 60 to 40 while the height grew to 200
C27_BottomLeftDragged ==
    /\ isDragging /\ zoom = 1
    /\ dragState.position = "bl" /\ dragState.shape \notin RegularShapes
    /\ dragState.originalWidth = RegularSize /\ dragState.originalHeight = RegularSize
    /\ style[dragState.nodeId].width = 40
    /\ style[dragState.nodeId].height = MaxSize


(***************************************************************************)
(* Properties of the upload in flight, the drag arithmetic and the layout  *)
(* selector.                                                               *)
(***************************************************************************)
\* isProcessing is set exactly while a processFile call is pending
ProcessingIffUploadPending == isProcessing <=> uploading # NoFile

\* C28: at most one upload is in flight: while isProcessing is true no
\* second handleUpload begins, so the pending upload is never joined or
\* replaced by another one, and when it settles onDataUploaded is called at
\* most once, with the document of the file the upload started with (and
\* not at all when that file is rejected), whatever file was chosen since.
C28_OneUploadInFlight ==
    /\ []ProcessingIffUploadPending
    /\ [][(uploading # NoFile /\ uploading' # NoFile) => uploading' = uploading]_vars
    /\ [][(uploading # NoFile /\ uploading' = NoFile)
          => /\ ~isProcessing'
             /\ graphData' = IF processFile(uploading).ok
                             THEN processFile(uploading).doc
                             ELSE graphData]_vars

\* C28 witness: the upload of a d2 file is pending and the d3 file has
\* been dropped on the modal since
C28_OtherFileChosenWhileProcessing ==
    /\ isProcessing
    /\ uploading.ext = "json" /\ uploading.content = "d2"
    /\ selectedFile.ext = "txt" /\ selectedFile.content = "d3"
    /\ graphData = NoDoc


\* the size a pointer at (x, y) gives the dragged node, from the DragState
\* and the zoom alone: the corner's formula for each dimension and, for a
\* circle, square or diamond, both dimensions taken from the one with the
\* larger absolute delta (the height on a tie)
SizeAtPointer(ds, x, y, z) ==
    LET s == CornerSigns[ds.position]
        dx == x - ds.startX
        dy == y - ds.startY
        w == ClampTo30And200(ds.originalWidth + (s.sx * dx) \div (2 * z))
        h == ClampTo30And200(ds.originalHeight + (s.sy * dy) \div (2 * z))
    IN  IF ds.shape \in {"circle", "square", "diamond"}
        THEN IF Abs(dx) > Abs(dy)
             THEN <<w, (w * ds.originalHeight) \div ds.originalWidth>>
             ELSE <<(h * ds.originalWidth) \div ds.originalHeight, h>>
        ELSE <<w, h>>

\* C29: within one drag the size a pointer-move applies is a function only
\* of the DragState fixed at pointer-down, the pointer position and the
\* zoom, whatever size earlier moves of the drag left on the node: two move
\* sequences ending at the same position give the same width and height,
\* and a move back to the start position restores the width and height
\* recorded at pointer-down.
C29_SizeFollowsPointerOnly ==
    /\ [][\A x \in MoveCoords, y \in MoveCoords :
            handleResizeMove(x, y) =>
               <<style'[dragState.nodeId].width, style'[dragState.nodeId].height>>
                  = SizeAtPointer(dragState, x, y, zoom)]_vars
    /\ [][handleResizeMove(dragState.startX, dragState.startY) =>
             /\ style'[dragState.nodeId].width = dragState.originalWidth
             /\ style'[dragState.nodeId].height = dragState.originalHeight]_vars

\* C29 witness: in the middle of a drag of a diamond, after a pointer-move
\* that took both dimensions away from the size recorded at pointer-down
C29_MovedAwayFromStart ==
    /\ isDragging /\ dragState.shape = "diamond"
    /\ style[dragState.nodeId].width # dragState.originalWidth
    /\ style[dragState.nodeId].height # dragState.originalHeight
    /\ style[dragState.nodeId].width < MaxSize


\* the state of a freshly built rendering instance of the current
\* document: nothing selected, no handles, every node in the stylesheet's
\* default style and untagged, and the snapshot of every node equal to it
FreshRendering ==
    /\ selected = {}
    /\ resizeHandles = <<>>
    /\ \A n \in CyNodes :
          /\ style[n] = DefaultStyle
          /\ tag[n] = NoTag
          /\ n \in DOMAIN originalStyles
          /\ originalStyles[n] = DefaultStyle

\* C30: choosing a different layout through Index.handleLayoutChange
\* changes currentLayout and so destroys and recreates the rendering
\* instance: right afterwards no node is selected, the handle list is
\* empty, every node carries the default style with no shape tag and the
\* snapshot is re-captured from those defaults, so earlier colour, border,
\* opacity, shape and size changes do not survive the layout change.
C30_LayoutChangeRecreatesRendering ==
    [][currentLayout' # currentLayout => FreshRendering']_vars

\* C30 witness: a layout other than the initial one was chosen after a
\* resize drag and a shape change whose timer is still due, and the
\* rendering is fresh, with the layout of the old instance still reported
\* as running
C30_FreshAfterLayoutChange ==
    /\ CyExists /\ currentLayout # "dagre" /\ posLayout = currentLayout
    /\ isLayoutRunning
    /\ drags > 0 /\ shapeTimers > 0
    /\ FreshRendering

=============================================================================
